---------------------------- MODULE Spec2Model ----------------------------
(***************************************************************************)
(* Model of the Honduras 2025 election projection scraper (src/main.py):   *)
(* the per-department acquisition loop of                                  *)
(* ElectionScraper.scrape_all_departments, the page extraction it calls,   *)
(* the national aggregation of calculate_national_projection, and the      *)
(* cycles of main with the cache, marker and historical files they write.  *)
(*                                                                         *)
(* Conventions.  A Python str that the code inspects character by          *)
(* character (names, cell texts, page text) is a sequence of one-character *)
(* strings.  A Python dict is a sequence of [key, val] records in          *)
(* insertion order.  A Python float is an exact rational [num, den] in     *)
(* lowest terms with den > 0.                                              *)
(***************************************************************************)
EXTENDS Integers, Sequences, FiniteSets, TLC

VARIABLES
    pc,               \* position of the program
    browser_page,     \* what the browser page shows now (a key of Pages)
    results,          \* scrape_with_existing_browser: results
    dept_results,     \* scrape_all_departments: results
    dept_codes,       \* scrape_all_departments: dept_codes
    dept_idx,         \* position of dept_name in HONDURAS_DEPARTMENTS
    attempt,          \* the loop variable of range(max_retries)
    department_data,  \* main(): the map of the cycle
    projection_df,    \* main(): the DataFrame of the cycle, a sequence of rows
    budget,           \* faults the upstream may still inject in this cycle
    last_attempt,     \* history: the attempt that ended last
    region_state,     \* history: how each department visited so far ended
    cp_call,          \* calculate_projection: the arguments and the value returned
    cache_file,       \* last_results.json: <<>> when absent, else <<content>>
    data_updated,     \* .data_updated: <<>> when absent, else <<timestamp>>
    historical_file,  \* historical_data.csv: its rows; <<>> when absent
    trigger_file,     \* .trigger_scrape exists
    last_results,     \* main(): <<>> for None, else <<snapshot>>
    display,          \* what display_results printed in the cycle, <<>> if nothing
    now,              \* datetime.now()
    fetch_outcome,    \* history: how the last acquisition of main() ended
    cache_valid,      \* last_results.json, when it exists, holds a whole JSON document
    polls,            \* main(): the polls made by the wait loop of line 1594
    cycle_start       \* history: the files and the snapshot when the cycle began

\* the files, the memory of main() and the clock
main_vars == <<cache_file, data_updated, historical_file, trigger_file, last_results,
               display, now, fetch_outcome, cache_valid, polls, cycle_start>>

\* one acquisition and its projection
cycle_vars == <<browser_page, results, dept_results, dept_codes, dept_idx, attempt,
                budget, last_attempt, region_state>>

vars == <<pc, browser_page, results, dept_results, dept_codes, dept_idx, attempt,
          department_data, projection_df, budget, last_attempt, region_state,
          cp_call, cache_file, data_updated, historical_file, trigger_file,
          last_results, display, now, fetch_outcome, cache_valid, polls,
          cycle_start>>

(***************************************************************************)
(* Bounds of the model.                                                    *)
(***************************************************************************)
MaxDepts == 3        \* entries of an aggregated map in SpecProj

FaultBudget == 11    \* faults injected in one cycle of SpecScrape

CodesFaultBudget == 1  \* faults injected in one cycle of SpecCodes

MaxUnmapped == 1     \* departments without a code in SpecCodes

MaxVotes == 12       \* the small tallies of SpecCalc are 0..MaxVotes

MaxCycles == 2       \* cycles of the main loop in SpecMain

MaxAppends == 3      \* calls of save_historical_data in SpecHist

(***************************************************************************)
(* Configuration (src/main.py 26-31).                                      *)
(***************************************************************************)
CHECK_INTERVAL == 120

\* line 1594: range(CHECK_INTERVAL // 5)
PollsPerWait == CHECK_INTERVAL \div 5

(***************************************************************************)
(* Sequences and ordered dicts.                                            *)
(***************************************************************************)
Range(s) == {s[i] : i \in 1..Len(s)}

RECURSIVE SumSeq(_)
SumSeq(s) == IF s = <<>> THEN 0 ELSE Head(s) + SumSeq(Tail(s))

\* the keys of a dict, in insertion order
Keys(d) == [i \in 1..Len(d) |-> d[i].key]

HasKey(d, k) == \E i \in 1..Len(d) : d[i].key = k

\* d[k], for a key the dict holds
Get(d, k) == d[CHOOSE i \in 1..Len(d) : d[i].key = k].val

\* d[k] = v: replaces the value in place, or inserts at the end
Put(d, k, v) ==
    IF HasKey(d, k)
    THEN [i \in 1..Len(d) |-> IF d[i].key = k THEN [key |-> k, val |-> v] ELSE d[i]]
    ELSE Append(d, [key |-> k, val |-> v])

(***************************************************************************)
(* Exact rationals for Python floats.                                      *)
(***************************************************************************)
Abs(n) == IF n < 0 THEN -n ELSE n

RECURSIVE GCD(_, _)
GCD(a, b) == IF b = 0 THEN a ELSE GCD(b, a % b)

Rat(n, d) ==
    LET g == GCD(Abs(n), d)
    IN  [num |-> n \div g, den |-> d \div g]

IntRat(n) == [num |-> n, den |-> 1]

RatAdd(a, b) == Rat(a.num * b.den + b.num * a.den, a.den * b.den)

\* sum() of a list of floats
RECURSIVE RatSum(_)
RatSum(s) == IF s = <<>> THEN IntRat(0) ELSE RatAdd(Head(s), RatSum(Tail(s)))

RatPositive(a) == a.num > 0

\* int(x) of a float: truncation toward zero
RatTrunc(a) ==
    IF a.num >= 0 THEN a.num \div a.den ELSE -((-a.num) \div a.den)

\* round-half-to-even of n / d to an integer, for n >= 0 and d > 0
RoundHalfEven(n, d) ==
    LET q == n \div d
        r == n % d
    IN  IF 2 * r < d THEN q
        ELSE IF 2 * r > d THEN q + 1
        ELSE IF q % 2 = 0 THEN q ELSE q + 1

(***************************************************************************)
(* str.lower() and substring containment on character sequences.           *)
(***************************************************************************)
UpperChars ==
    <<"A", "B", "C", "D", "E", "F", "G", "H", "I", "J", "K", "L", "M", "N",
      "O", "P", "Q", "R", "S", "T", "U", "V", "W", "X", "Y", "Z",
      "Á", "É", "Í", "Ó", "Ú", "Ñ">>

LowerChars ==
    <<"a", "b", "c", "d", "e", "f", "g", "h", "i", "j", "k", "l", "m", "n",
      "o", "p", "q", "r", "s", "t", "u", "v", "w", "x", "y", "z",
      "á", "é", "í", "ó", "ú", "ñ">>

LowerChar(c) ==
    IF \E i \in 1..Len(UpperChars) : UpperChars[i] = c
    THEN LowerChars[CHOOSE i \in 1..Len(UpperChars) : UpperChars[i] = c]
    ELSE c

\* name.lower()
Lower(s) == [i \in 1..Len(s) |-> LowerChar(s[i])]

\* needle in hay
Contains(hay, needle) ==
    \E i \in 1..(Len(hay) - Len(needle) + 1) :
        SubSeq(hay, i, i + Len(needle) - 1) = needle

(***************************************************************************)
(* Text helpers: str.strip, str.replace(c, ''), str.split('\n'), int().    *)
(***************************************************************************)
DigitChars == {"0", "1", "2", "3", "4", "5", "6", "7", "8", "9"}

SpaceChars == {" ", "\n", "\t"}

DigitVal(c) ==
    CASE c = "0" -> 0 [] c = "1" -> 1 [] c = "2" -> 2 [] c = "3" -> 3
      [] c = "4" -> 4 [] c = "5" -> 5 [] c = "6" -> 6 [] c = "7" -> 7
      [] c = "8" -> 8 [] c = "9" -> 9

\* int(s) of a non-empty string of digits
RECURSIVE ParseInt(_)
ParseInt(s) ==
    IF s = <<>> THEN 0
    ELSE 10 * ParseInt(SubSeq(s, 1, Len(s) - 1)) + DigitVal(s[Len(s)])

RECURSIVE Pow10(_)
Pow10(n) == IF n = 0 THEN 1 ELSE 10 * Pow10(n - 1)

\* s with every character of the set removed: chained str.replace(c, '')
Without(s, chars) == SelectSeq(s, LAMBDA c : c \notin chars)

RECURSIVE LStrip(_)
LStrip(s) ==
    IF s /= <<>> /\ Head(s) \in SpaceChars THEN LStrip(Tail(s)) ELSE s

RECURSIVE RStrip(_)
RStrip(s) ==
    IF s /= <<>> /\ s[Len(s)] \in SpaceChars
    THEN RStrip(SubSeq(s, 1, Len(s) - 1))
    ELSE s

Strip(s) == LStrip(RStrip(s))

\* text.split('\n')
RECURSIVE SplitLines(_)
SplitLines(s) ==
    IF \E i \in 1..Len(s) : s[i] = "\n"
    THEN LET i == CHOOSE k \in 1..Len(s) :
                      s[k] = "\n" /\ \A j \in 1..(k - 1) : s[j] /= "\n"
         IN  <<SubSeq(s, 1, i - 1)>> \o SplitLines(SubSeq(s, i + 1, Len(s)))
    ELSE <<s>>

(***************************************************************************)
(* The regular expressions of the re module that the code uses, matched as *)
(* re matches them: leftmost, greedy, with backtracking.  A regex is a     *)
(* tree; Ends gives the positions where a match starting at i can end, in  *)
(* the order in which the backtracking matcher tries them.                 *)
(***************************************************************************)
Cls(chars) == [t |-> "cls", s |-> chars]

Cat(rs) == [t |-> "cat", rs |-> rs]

Opt(r) == [t |-> "opt", r |-> r]

Star(r) == [t |-> "star", r |-> r]

Plus(r) == Cat(<<r, Star(r)>>)

Rep(r, lo, hi) == [t |-> "rep", r |-> r, lo |-> lo, hi |-> hi]

\* a literal string
Lit(s) == Cat([i \in 1..Len(s) |-> Cls({s[i]})])

RECURSIVE Ends(_, _, _), EndsFrom(_, _, _)
Ends(re, s, i) ==
    CASE re.t = "cls" ->
            IF i <= Len(s) /\ s[i] \in re.s THEN <<i + 1>> ELSE <<>>
      [] re.t = "cat" ->
            IF re.rs = <<>> THEN <<i>>
            ELSE EndsFrom(Cat(Tail(re.rs)), s, Ends(Head(re.rs), s, i))
      [] re.t = "opt" -> Ends(re.r, s, i) \o <<i>>
      [] re.t = "star" ->
            EndsFrom(re, s, SelectSeq(Ends(re.r, s, i), LAMBDA e : e > i)) \o <<i>>
      [] re.t = "rep" ->
            IF re.hi = 0 THEN <<i>>
            ELSE EndsFrom(Rep(re.r, IF re.lo > 0 THEN re.lo - 1 ELSE 0, re.hi - 1),
                          s, Ends(re.r, s, i))
                 \o (IF re.lo = 0 THEN <<i>> ELSE <<>>)

EndsFrom(re, s, starts) ==
    IF starts = <<>> THEN <<>>
    ELSE Ends(re, s, Head(starts)) \o EndsFrom(re, s, Tail(starts))

\* The first match, in backtracking order, of the consecutive parts of a
\* pattern from position i: << <<i, e1, ..., en>> >> with part k matching
\* s[e(k-1) .. ek - 1], or <<>> when there is none.
RECURSIVE MatchParts(_, _, _), FirstOver(_, _, _, _), FirstOr(_, _, _, _, _)
MatchParts(parts, s, i) ==
    IF parts = <<>> THEN << <<i>> >>
    ELSE FirstOver(Ends(Head(parts), s, i), Tail(parts), s, i)

FirstOver(ends, rest, s, i) ==
    IF ends = <<>> THEN <<>>
    ELSE FirstOr(MatchParts(rest, s, Head(ends)), Tail(ends), rest, s, i)

FirstOr(m, ends, rest, s, i) ==
    IF m /= <<>> THEN << <<i>> \o m[1] >> ELSE FirstOver(ends, rest, s, i)

\* re.search: the match at the leftmost position that has one
RECURSIVE SearchFrom(_, _, _), SearchOr(_, _, _, _)
SearchFrom(parts, s, i) ==
    IF i > Len(s) + 1 THEN <<>>
    ELSE SearchOr(MatchParts(parts, s, i), parts, s, i)

SearchOr(m, parts, s, i) ==
    IF m /= <<>> THEN m ELSE SearchFrom(parts, s, i + 1)

Search(parts, s) == SearchFrom(parts, s, 1)

\* group k of a match: the text that part k matched
Group(s, bounds, k) == SubSeq(s, bounds[k], bounds[k + 1] - 1)

\* match.group(k) of a search as <<text>>, or <<>> when there is no match
GroupOf(s, m, k) == IF m = <<>> THEN <<>> ELSE <<Group(s, m[1], k)>>

SearchGroup(parts, s, k) == GroupOf(s, Search(parts, s), k)

\* a, or b when a is empty
OrElse(a, b) == IF a /= <<>> THEN a ELSE b

(***************************************************************************)
(* The page accessor.  A page is what the accessor answers at one moment:  *)
(*   body    page.inner_text('body')                                       *)
(*   tables  query_selector_all('table'): tables of rows of td texts        *)
(*   cards   card selector number -> inner texts of the elements it finds  *)
(*   els     actas selector number -> inner texts of the elements it finds *)
(*   raises  the page-level accessor calls that raise                      *)
(* An element whose inner_text() raises has the text RaiseText.            *)
(***************************************************************************)
RaiseText == <<"!raise">>

NoElements == [k \in {} |-> <<>>]

ElementsOf(found, k) == IF k \in DOMAIN found THEN found[k] ELSE <<>>

\* the number of entries of card_selectors (977-987) and of selectors (922-929)
NumCardSelectors == 9

NumActasSelectors == 6

(***************************************************************************)
(* ElectionScraper.extract_actas_percentage (src/main.py 899-946).         *)
(***************************************************************************)
ReDigits == Plus(Cls(DigitChars))

ReSpaces == Star(Cls(SpaceChars))

\* (\d+(?:[.,]\d+)?)
ReNumber == Cat(<<ReDigits, Opt(Cat(<<Cls({".", ","}), ReDigits>>))>>)

\* \s*%
RePercent == Cat(<<ReSpaces, Cls({"%"})>>)

\* [:\s]+
ReColonSpaces == Plus(Cls(SpaceChars \cup {":"}))

ReActas == Cat(<<Cls({"A", "a"}), Lit(<<"c", "t", "a", "s">>)>>)

\* [Pp]rocesad[ao]
ReProcesad ==
    Cat(<<Cls({"P", "p"}), Lit(<<"r", "o", "c", "e", "s", "a", "d">>), Cls({"a", "o"})>>)

ReEmpty == Cat(<<>>)

\* lines 906-913: each pattern as <<before the group, the group, after it>>
actas_patterns ==
    << <<ReEmpty, ReNumber,
         Cat(<<RePercent, ReSpaces,
               Opt(Cat(<<Lit(<<"d", "e">>), Plus(Cls(SpaceChars))>>)), ReActas>>)>>,
       <<Cat(<<ReActas, ReColonSpaces>>), ReNumber, RePercent>>,
       <<Cat(<<ReProcesad, Opt(Cls({"s"})), ReColonSpaces>>), ReNumber, RePercent>>,
       <<Cat(<<ReActas, Plus(Cls(SpaceChars)), ReProcesad, Opt(Cls({"s"})),
               ReColonSpaces>>), ReNumber, RePercent>>,
       <<ReEmpty, ReNumber, Cat(<<RePercent, ReSpaces, ReProcesad>>)>>,
       <<Cat(<<Cls({"A", "a"}), Lit(<<"v", "a", "n", "c", "e">>), ReColonSpaces>>),
         ReNumber, RePercent>> >>

\* line 936
element_percent_pattern == <<ReEmpty, ReNumber, RePercent>>

\* float() of digits, a separator and digits
FloatOf(whole, frac) ==
    Rat(ParseInt(whole) * Pow10(Len(frac)) + ParseInt(frac), Pow10(Len(frac)))

\* lines 918-919 and 938-939: float(match.group(1).replace(',', '.'))
ParseFloat(text) ==
    IF \E i \in 1..Len(text) : text[i] \in {".", ","}
    THEN LET i == CHOOSE k \in 1..Len(text) : text[k] \in {".", ","}
         IN  FloatOf(SubSeq(text, 1, i - 1), SubSeq(text, i + 1, Len(text)))
    ELSE IntRat(ParseInt(text))

\* <<float(group)>> of a found group, or <<>>
FloatOfGroup(g) == IF g = <<>> THEN <<>> ELSE <<ParseFloat(g[1])>>

\* lines 915-919: the first pattern, in order, that the page text matches
RECURSIVE FirstPatternValue(_, _), PatternValueOr(_, _, _)
FirstPatternValue(text, k) ==
    IF k > Len(actas_patterns) THEN <<>>
    ELSE PatternValueOr(SearchGroup(actas_patterns[k], text, 2), text, k)

PatternValueOr(g, text, k) ==
    IF g /= <<>> THEN FloatOfGroup(g) ELSE FirstPatternValue(text, k + 1)

\* lines 934-939: the elements of one selector; an element whose inner_text()
\* raises ends the selector (940-941)
RECURSIVE FirstElementValue(_), ElementValueOr(_, _)
FirstElementValue(texts) ==
    IF texts = <<>> \/ Head(texts) = RaiseText THEN <<>>
    ELSE ElementValueOr(SearchGroup(element_percent_pattern, Head(texts), 2), texts)

ElementValueOr(g, texts) ==
    IF g /= <<>> THEN FloatOfGroup(g) ELSE FirstElementValue(Tail(texts))

\* lines 931-941
RECURSIVE FirstSelectorValue(_, _), SelectorValueOr(_, _, _)
FirstSelectorValue(page, k) ==
    IF k > NumActasSelectors THEN <<>>
    ELSE IF "actas_el" \in page.raises THEN FirstSelectorValue(page, k + 1)
    ELSE SelectorValueOr(FirstElementValue(ElementsOf(page.els, k)), page, k)

SelectorValueOr(v, page, k) ==
    IF v /= <<>> THEN v ELSE FirstSelectorValue(page, k + 1)

\* line 946: return 0.0 when nothing was found
ValueOrZero(v) == IF v /= <<>> THEN v[1] ELSE IntRat(0)

extract_actas_percentage(page) ==
    IF "body" \in page.raises THEN IntRat(0)
    ELSE ValueOrZero(OrElse(FirstPatternValue(page.body, 1),
                            FirstSelectorValue(page, 1)))

(***************************************************************************)
(* ElectionScraper.extract_candidates (src/main.py 948-1030).  Each scan   *)
(* gives [cands, exc]: the list so far and whether an exception left it.   *)
(***************************************************************************)
Separators == {",", ".", " "}

AllIn(s, chars) == s /= <<>> /\ \A i \in 1..Len(s) : s[i] \in chars

\* int(votes_match.group(1)), or -1 when there is no match
IntOfGroup(g) == IF g = <<>> THEN -1 ELSE ParseInt(g[1])

\* lines 963-967: the first run of digits of the cell text, separators removed
CellVotes(cell_text) ==
    IntOfGroup(SearchGroup(<<ReDigits>>, Without(Strip(cell_text), Separators), 1))

\* lines 962-970: the cells from cell k down to the first one
RECURSIVE ScanCells(_, _, _), ScanCellsWith(_, _, _, _)
\* (a cell whose number is 0 taken as the votes)
ScanCellsWithZero(votes, cells, k, name) ==
    IF votes >= 0 /\ name /= <<>>
    THEN [cands |-> <<[name |-> name, votes |-> votes]>>, exc |-> FALSE]
    ELSE ScanCells(cells, k - 1, name)

ScanCells(cells, k, name) ==
    IF k = 0 THEN [cands |-> <<>>, exc |-> FALSE]
    ELSE IF cells[k] = RaiseText THEN [cands |-> <<>>, exc |-> TRUE]
    ELSE ScanCellsWith(CellVotes(cells[k]), cells, k, name)

ScanCellsWith(votes, cells, k, name) ==
    IF votes >= 0 /\ name /= <<>> /\ votes > 0
    THEN [cands |-> <<[name |-> name, votes |-> votes]>>, exc |-> FALSE]
    ELSE ScanCells(cells, k - 1, name)

\* lines 958-970: one row
ScanRow(cells) ==
    IF Len(cells) >= 2
    THEN IF cells[1] = RaiseText THEN [cands |-> <<>>, exc |-> TRUE]
         ELSE ScanCells(cells, Len(cells), Strip(cells[1]))
    ELSE [cands |-> <<>>, exc |-> FALSE]

RECURSIVE ScanRows(_, _), ScanRowsWith(_, _, _)
ScanRows(rows, candidates) ==
    IF rows = <<>> THEN [cands |-> candidates, exc |-> FALSE]
    ELSE ScanRowsWith(ScanRow(Head(rows)), rows, candidates)

ScanRowsWith(r, rows, candidates) ==
    IF r.exc THEN [cands |-> candidates \o r.cands, exc |-> TRUE]
    ELSE ScanRows(Tail(rows), candidates \o r.cands)

\* lines 955-973: the tables in order, stopping after the first that gave any
RECURSIVE ScanTables(_, _), ScanTablesWith(_, _)
ScanTables(tables, candidates) ==
    IF tables = <<>> THEN [cands |-> candidates, exc |-> FALSE]
    ELSE ScanTablesWith(ScanRows(Head(tables), candidates), tables)

ScanTablesWith(r, tables) ==
    IF r.exc \/ r.cands /= <<>> THEN r ELSE ScanTables(Tail(tables), r.cands)

TableScan(page) ==
    IF "table" \in page.raises THEN [cands |-> <<>>, exc |-> TRUE]
    ELSE ScanTables(page.tables, <<>>)

\* line 994: the stripped, non-empty lines of a card's text
StrippedLines(lines) ==
    SelectSeq([i \in 1..Len(lines) |-> Strip(lines[i])], LAMBDA l : l /= <<>>)

CardLines(text) == StrippedLines(SplitLines(text))

\* line 1003: re.match(r'^\d+$', clean_line) and int(clean_line) >= 1
IsVotes(clean_line) == AllIn(clean_line, DigitChars) /\ ParseInt(clean_line) >= 1

IsVotesLine(line) == IsVotes(Without(line, Separators))

\* line 1005: not re.match(r'^[\d\s.,]+$', line) and len(line) > 2
IsNameLine(line) ==
    ~AllIn(line, DigitChars \cup SpaceChars \cup {".", ","}) /\ Len(line) > 2

\* (the votes kept from the first numeric line)
AssignVotesOnce(votes, line) ==
    IF votes /= <<>> THEN votes ELSE <<ParseInt(Without(line, Separators))>>

\* line 1004: votes = int(clean_line), on every numeric line
AssignVotes(votes, line) == <<ParseInt(Without(line, Separators))>>

\* lines 1001-1006: the loop over the lines; name and votes are <<>> for None
RECURSIVE ScanLines(_, _, _)
ScanLines(lines, name, votes) ==
    IF lines = <<>> THEN [name |-> name, votes |-> votes]
    ELSE IF IsVotesLine(Head(lines))
    THEN ScanLines(Tail(lines), name, AssignVotes(votes, Head(lines)))
    ELSE IF name = <<>> /\ IsNameLine(Head(lines))
    THEN ScanLines(Tail(lines), <<Head(lines)>>, votes)
    ELSE ScanLines(Tail(lines), name, votes)

\* line 1008: if name and votes is not None
CardCandidate(r) ==
    IF r.name /= <<>> /\ r.votes /= <<>>
    THEN <<[name |-> r.name[1], votes |-> r.votes[1]]>>
    ELSE <<>>

\* lines 992-1009: one card (a card without lines gives nothing)
ScanCard(text) == CardCandidate(ScanLines(CardLines(text), <<>>, <<>>))

RECURSIVE ScanCards(_, _)
ScanCards(texts, candidates) ==
    IF texts = <<>> THEN [cands |-> candidates, exc |-> FALSE]
    ELSE IF Head(texts) = RaiseText THEN [cands |-> candidates, exc |-> TRUE]
    ELSE ScanCards(Tail(texts), candidates \o ScanCard(Head(texts)))

\* lines 989-1014: the selectors in order; an exception inside one selector
\* goes on to the next selector (1013-1014) with the list as it is
RECURSIVE ScanSelectors(_, _, _), ScanSelectorsWith(_, _, _)
ScanSelectors(page, k, candidates) ==
    IF k > NumCardSelectors THEN candidates
    ELSE IF "card" \in page.raises THEN ScanSelectors(page, k + 1, candidates)
    ELSE ScanSelectorsWith(ScanCards(ElementsOf(page.cards, k), candidates), page, k)

ScanSelectorsWith(r, page, k) ==
    IF ~r.exc /\ r.cands /= <<>> THEN r.cands
    ELSE ScanSelectors(page, k + 1, r.cands)

CardScan(page) == ScanSelectors(page, 1, <<>>)

\* line 1020
ReWord == Cat(<<Cls(Range(UpperChars)), Plus(Cls(Range(LowerChars)))>>)

candidate_pattern ==
    << Cat(<<ReWord, Star(Cat(<<Plus(Cls(SpaceChars)), ReWord>>))>>),
       Cat(<<ReSpaces, Opt(Cls({":", "-"})), ReSpaces>>),
       Cat(<<Rep(Cls(DigitChars), 1, 3),
             Star(Cat(<<Cls(SpaceChars \cup {",", "."}), Rep(Cls(DigitChars), 3, 3)>>))>>),
       Cat(<<ReSpaces, Opt(Cat(<<Lit(<<"v", "o", "t", "o">>), Opt(Cls({"s"}))>>))>>) >>

\* line 1021: re.findall, the matches from left to right without overlap
RECURSIVE FindAll(_, _), FindAllWith(_, _)
FindAll(text, from) == FindAllWith(SearchFrom(candidate_pattern, text, from), text)

FindAllWith(m, text) ==
    IF m = <<>> THEN <<>>
    ELSE <<[name |-> Group(text, m[1], 1), votes_str |-> Group(text, m[1], 3)]>>
         \o FindAll(text, m[1][5])

\* (a threshold that lets 100 votes in)
TextVotesAcceptedInclusive(votes) == votes >= 100

\* line 1024: the threshold of the free-text strategy
TextVotesAccepted(votes) == votes > 100

\* lines 1022-1025; int() raises on a number that still holds a newline or tab
RECURSIVE ScanMatches(_, _), ScanMatchesWith(_, _, _)
ScanMatches(matches, candidates) ==
    IF matches = <<>> THEN [cands |-> candidates, exc |-> FALSE]
    ELSE ScanMatchesWith(Without(Head(matches).votes_str, Separators),
                         matches, candidates)

ScanMatchesWith(digits, matches, candidates) ==
    IF ~AllIn(digits, DigitChars) THEN [cands |-> candidates, exc |-> TRUE]
    ELSE IF TextVotesAccepted(ParseInt(digits))
    THEN ScanMatches(Tail(matches),
                     Append(candidates, [name |-> Strip(Head(matches).name),
                                         votes |-> ParseInt(digits)]))
    ELSE ScanMatches(Tail(matches), candidates)

TextScan(page) ==
    IF "body" \in page.raises THEN [cands |-> <<>>, exc |-> TRUE]
    ELSE ScanMatches(FindAll(page.body, 1), <<>>)

\* (the cards and the page text tried until a list has 2 candidates)
AfterTablesAtLeastTwo(t, page) ==
    IF t.exc THEN t.cands
    ELSE IF Len(t.cands) >= 2 THEN t.cands
    ELSE IF Len(CardScan(page)) >= 2 THEN CardScan(page)
    ELSE IF Len(TextScan(page).cands) >= 2 THEN TextScan(page).cands
    ELSE <<>>

\* (the cards passed over)
AfterTablesTextOnly(t, page) ==
    IF t.exc \/ t.cands /= <<>> THEN t.cands ELSE TextScan(page).cands

\* lines 975-1025, after the tables: the cards, then the page text
AfterTables(t, page) ==
    IF t.exc \/ t.cands /= <<>> THEN t.cands
    ELSE OrElse(CardScan(page), TextScan(page).cands)

extract_candidates(page) == AfterTables(TableScan(page), page)

(***************************************************************************)
(* calculate_projection (src/main.py 345-353).                             *)
(***************************************************************************)
\* lines 350-353 with the percentage applied instead of divided by
calculate_projection_shrunk(current_votes, actas_percentage) ==
    IF ~RatPositive(actas_percentage)
    THEN IntRat(current_votes)
    ELSE Rat(current_votes * actas_percentage.num, 100 * actas_percentage.den)

\* lines 350-353 without the factor 100
calculate_projection_unscaled(current_votes, actas_percentage) ==
    IF ~RatPositive(actas_percentage)
    THEN IntRat(current_votes)
    ELSE Rat(current_votes * actas_percentage.den, actas_percentage.num)

\* lines 350-351 returning the percentage instead of the votes
calculate_projection_swapped(current_votes, actas_percentage) ==
    IF ~RatPositive(actas_percentage)
    THEN actas_percentage
    ELSE Rat(current_votes * 100 * actas_percentage.den, actas_percentage.num)

\* lines 350-353 projecting at least one vote
calculate_projection_at_least_one(current_votes, actas_percentage) ==
    IF ~RatPositive(actas_percentage)
    THEN IntRat(current_votes)
    ELSE IF current_votes = 0 THEN IntRat(1)
    ELSE Rat(current_votes * 100 * actas_percentage.den, actas_percentage.num)

calculate_projection(current_votes, actas_percentage) ==
    IF ~RatPositive(actas_percentage)
    THEN IntRat(current_votes)
    ELSE Rat(current_votes * 100 * actas_percentage.den, actas_percentage.num)

(***************************************************************************)
(* calculate_national_projection (src/main.py 1436-1503).                  *)
(***************************************************************************)
exclude_keywords ==
    << <<"i", "n", "f", "o", "r", "m", "a", "c", "i", "ó", "n">>,
       <<"g", "e", "n", "e", "r", "a", "l">>,
       <<"a", "c", "t", "a">>,
       <<"t", "o", "t", "a", "l">>,
       <<"v", "o", "t", "o", "s">>,
       <<"n", "u", "l", "o", "s">>,
       <<"b", "l", "a", "n", "c", "o", "s">>,
       <<"a", "b", "s", "t", "e", "n", "c", "i", "ó", "n">> >>

\* line 1448: the keys the aggregation skips
SkipDeptOnlyRaw(dept_name) == dept_name = "raw_data"

SkipDept(dept_name) == dept_name \in {"raw_data", "Nacional"}

\* lines 1459-1460: any(kw in name_lower for kw in exclude_keywords)
IsExcludedNameCaseSensitive(name) ==
    \E k \in 1..Len(exclude_keywords) : Contains(name, exclude_keywords[k])

IsExcludedName(name) ==
    \E k \in 1..Len(exclude_keywords) : Contains(Lower(name), exclude_keywords[k])

\* line 1464: votes < 100
IsLowVotesInclusive(votes) == votes <= 100

IsLowVotes(votes) == votes < 100

\* line 1468
ProjectedOfNational(votes, actas_pct) == IntRat(votes)

ProjectedOf(votes, actas_pct) ==
    IF RatPositive(actas_pct) THEN calculate_projection(votes, actas_pct)
    ELSE IntRat(votes)

\* lines 1454-1477, one iteration of the inner loop
AddCandidate(candidate_projections, candidate, actas_pct) ==
    LET name == candidate.name
        votes == candidate.votes
    IN  IF IsExcludedName(name) THEN candidate_projections
        ELSE IF IsLowVotes(votes) THEN candidate_projections
        ELSE LET projected == ProjectedOf(votes, actas_pct)
                 cp == IF HasKey(candidate_projections, name)
                       THEN candidate_projections
                       ELSE Put(candidate_projections, name,
                                [current_votes |-> 0, projected_votes |-> IntRat(0)])
                 old == Get(cp, name)
             IN  Put(cp, name,
                     [current_votes |-> old.current_votes + votes,
                      projected_votes |-> RatAdd(old.projected_votes, projected)])

\* lines 1454-1477, the inner loop; the loop state is the dict so far and
\* the candidates still to visit
RECURSIVE CandidatesLoop(_, _)
CandidatesLoop(st, actas_pct) ==
    IF st.rest = <<>> THEN st.candidate_projections
    ELSE CandidatesLoop(
             [candidate_projections |->
                  AddCandidate(st.candidate_projections, Head(st.rest), actas_pct),
              rest |-> Tail(st.rest)],
             actas_pct)

AddCandidates(candidate_projections, candidates, actas_pct) ==
    CandidatesLoop([candidate_projections |-> candidate_projections,
                    rest |-> candidates], actas_pct)

\* lines 1446-1477, one iteration of the loop over the departments
AddDepartment(candidate_projections, e) ==
    IF SkipDept(e.key) THEN candidate_projections
    ELSE AddCandidates(candidate_projections, e.val.candidates,
                       e.val.actas_percentage)

\* lines 1446-1477, the loop over the departments
RECURSIVE DepartmentsLoop(_)
DepartmentsLoop(st) ==
    IF st.rest = <<>> THEN st.candidate_projections
    ELSE DepartmentsLoop(
             [candidate_projections |->
                  AddDepartment(st.candidate_projections, Head(st.rest)),
              rest |-> Tail(st.rest)])

AddDepartments(candidate_projections, data) ==
    DepartmentsLoop([candidate_projections |-> candidate_projections,
                     rest |-> data])

\* lines 1481-1488: the rows before the percentage and the sort
FrameRows(candidate_projections) ==
    [i \in 1..Len(candidate_projections) |->
        [Candidate |-> candidate_projections[i].key,
         CurrentVotes |-> candidate_projections[i].val.current_votes,
         ProjectedVotes |-> RatTrunc(candidate_projections[i].val.projected_votes)]]

\* lines 1491-1495: the Percentage column, in hundredths of a percent
PercentageOfTruncated(projected_votes, total_projected) ==
    IF total_projected > 0
    THEN (projected_votes * 10000) \div total_projected
    ELSE 0

PercentageOf(projected_votes, total_projected) ==
    IF total_projected > 0
    THEN RoundHalfEven(projected_votes * 10000, total_projected)
    ELSE 0

WithPercentageOfCurrent(rows) ==
    LET total_current == SumSeq([i \in 1..Len(rows) |-> rows[i].CurrentVotes])
    IN  [i \in 1..Len(rows) |->
            [Candidate |-> rows[i].Candidate,
             CurrentVotes |-> rows[i].CurrentVotes,
             ProjectedVotes |-> rows[i].ProjectedVotes,
             Percentage |-> PercentageOf(rows[i].ProjectedVotes, total_current)]]

WithPercentage(rows) ==
    LET total_projected == SumSeq([i \in 1..Len(rows) |-> rows[i].ProjectedVotes])
    IN  [i \in 1..Len(rows) |->
            [Candidate |-> rows[i].Candidate,
             CurrentVotes |-> rows[i].CurrentVotes,
             ProjectedVotes |-> rows[i].ProjectedVotes,
             Percentage |-> PercentageOf(rows[i].ProjectedVotes, total_projected)]]

\* line 1498: sort_values('Projected Votes', ascending=False) with the default
\* kind 'quicksort', which is not a stable sort: rows of equal projected votes
\* come out in an order that depends on the numpy build.  SortOrders is the set
\* of row orders the call can produce, f[p] being the input row put at place p.
SortOrders(rows) ==
    {f \in [1..Len(rows) -> 1..Len(rows)] :
        /\ \A p, q \in 1..Len(rows) : f[p] = f[q] => p = q
        /\ \A p \in 1..(Len(rows) - 1) :
               rows[f[p]].ProjectedVotes >= rows[f[p + 1]].ProjectedVotes}

sort_values(rows) ==
    {[p \in 1..Len(rows) |-> rows[f[p]]] : f \in SortOrders(rows)}

\* the DataFrames the function can return; row p has rank (index) p; <<>> is
\* the empty DataFrame
ToFrame(candidate_projections) ==
    IF candidate_projections /= <<>>
    THEN sort_values(WithPercentage(FrameRows(candidate_projections)))
    ELSE {<<>>}

calculate_national_projection(data) == ToFrame(AddDepartments(<<>>, data))


(***************************************************************************)
(* The upstream site.  Pages holds the pages the model lets the browser    *)
(* show; the extraction results are tabulated once per page.               *)
(***************************************************************************)
TxtAna == <<"A", "n", "a">>

TxtLeo == <<"L", "e", "o">>

BasePage == [body |-> <<>>, tables |-> <<>>, cards |-> NoElements,
             els |-> NoElements, raises |-> {}]

Pages ==
    [blank |-> BasePage,
     one |-> [BasePage EXCEPT
                !.body = <<"A", "n", "a", "\t", "9", "0", "0">>,
                !.tables = << << <<TxtAna, <<"9", "0", "0">>>> >> >>],
     nacional |-> [BasePage EXCEPT
                !.body = <<"A", "c", "t", "a", "s", ":", " ", "6", "0", "%", "\n", "A", "n", "a", "\t", "5", ".", "0", "0", "0", "\n", "L", "e", "o", "\t", "4", ".", "0", "0", "0">>,
                !.tables = << << <<TxtAna, <<"5", ".", "0", "0", "0">>>>, <<TxtLeo, <<"4", ".", "0", "0", "0">>>> >> >>],
     table |-> [BasePage EXCEPT
                !.body = <<"A", "c", "t", "a", "s", ":", " ", "5", "0", "%", "\n", "A", "n", "a", "\t", "1", ",", "0", "0", "0", "\n", "L", "e", "o", "\t", "5", "0", "0">>,
                !.tables = << << <<TxtAna, <<"1", ",", "0", "0", "0">>>>, <<TxtLeo, <<"5", "0", "0">>>> >> >>],
     low |-> [BasePage EXCEPT
                !.body = <<"A", "c", "t", "a", "s", " ", "p", "r", "o", "c", "e", "s", "a", "d", "a", "s", ":", " ", "8", "0", "%", "\n", "A", "n", "a", "\t", "1", "0", "0", "\n", "L", "e", "o", "\t", "9", "9">>,
                !.tables = << << <<TxtAna, <<"1", "0", "0">>>>, <<TxtLeo, <<"9", "9">>>> >> >>],
     card |-> [BasePage EXCEPT
                !.body = <<"5", "7", ",", "5", "%", " ", "d", "e", " ", "a", "c", "t", "a", "s", "\n", "A", "n", "a", "\n", "2", ".", "0", "0", "0", "\n", "L", "e", "o", "\n", "1", ".", "5", "0", "0">>,
                !.cards = (2 :> <<<<"A", "n", "a", "\n", "2", ".", "0", "0", "0">>, <<"L", "e", "o", "\n", "1", ".", "5", "0", "0">>>>)],
     text |-> [BasePage EXCEPT
                !.body = <<"A", "v", "a", "n", "c", "e", ":", " ", "3", "0", "%", "\n", "A", "n", "a", " ", "2", ",", "0", "0", "0", " ", "v", "o", "t", "o", "s", "\n", "L", "e", "o", ":", " ", "1", "5", "0", "\n", "E", "v", "a", ":", " ", "5", "0">>],
     exterior |-> [BasePage EXCEPT
                !.body = <<"1", "0", "0", "%", " ", "A", "c", "t", "a", "s", "\n", "A", "n", "a", "\t", "1", "2", "\n", "L", "e", "o", "\t", "7">>,
                !.tables = << << <<TxtAna, <<"1", "2">>>>, <<TxtLeo, <<"7">>>> >> >>]]

PageIds == DOMAIN Pages

CandidatesOf == [id \in PageIds |-> extract_candidates(Pages[id])]

ActasOf == [id \in PageIds |-> extract_actas_percentage(Pages[id])]

(***************************************************************************)
(* The departments (src/main.py 65-70) and their codes (585-605).          *)
(***************************************************************************)
HONDURAS_DEPARTMENTS ==
    <<"ATLANTIDA", "COLON", "COMAYAGUA", "COPAN", "CORTES",
      "CHOLUTECA", "EL PARAISO", "FRANCISCO MORAZAN", "GRACIAS A DIOS",
      "INTIBUCA", "ISLAS DE LA BAHIA", "LA PAZ", "LEMPIRA", "OCOTEPEQUE",
      "OLANCHO", "SANTA BARBARA", "VALLE", "YORO", "VOTO EN EL EXTERIOR">>

Exterior == "VOTO EN EL EXTERIOR"

\* (a table without the entry of YORO)
DeptCodesWithoutYoro ==
    [d \in Range(HONDURAS_DEPARTMENTS) \ {"YORO"} |-> "00"]

DeptCodes ==
    [d \in Range(HONDURAS_DEPARTMENTS) |->
        CASE d = "ATLANTIDA" -> "01" [] d = "CHOLUTECA" -> "06"
          [] d = "COLON" -> "02" [] d = "COMAYAGUA" -> "03"
          [] d = "COPAN" -> "04" [] d = "CORTES" -> "05"
          [] d = "EL PARAISO" -> "07" [] d = "FRANCISCO MORAZAN" -> "08"
          [] d = "GRACIAS A DIOS" -> "09" [] d = "INTIBUCA" -> "10"
          [] d = "ISLAS DE LA BAHIA" -> "11" [] d = "LA PAZ" -> "12"
          [] d = "LEMPIRA" -> "13" [] d = "OCOTEPEQUE" -> "14"
          [] d = "OLANCHO" -> "15" [] d = "SANTA BARBARA" -> "16"
          [] d = "VALLE" -> "17" [] d = "VOTO EN EL EXTERIOR" -> "20"
          [] d = "YORO" -> "18"]

\* the page the site shows for a department once its query has rendered
NominalPages ==
    <<"table", "low", "card", "text", "table", "card", "text", "table", "card",
      "text", "table", "card", "text", "table", "card", "text", "table", "card",
      "exterior">>

\* the pages a slow or failing render leaves in the browser
FaultPages == {"blank", "one"}

dept_name == HONDURAS_DEPARTMENTS[dept_idx]

NoAttempt == [dept |-> "", attempt |-> -1, outcome |-> "none", n |-> 0, total |-> 0]

(***************************************************************************)
(* ElectionScraper.scrape_all_departments (src/main.py 544-698).           *)
(***************************************************************************)
\* line 611
MaxRetriesNine(dept) == IF dept = Exterior THEN 1 ELSE 9

MaxRetriesEleven(dept) == IF dept = Exterior THEN 1 ELSE 11

max_retries(dept) == IF dept = Exterior THEN 1 ELSE 10

\* line 669
total_votes(candidates) ==
    SumSeq([i \in 1..Len(candidates) |-> candidates[i].votes])

\* line 672
AcceptsExterior(dept, candidates) ==
    dept = Exterior /\ candidates /= <<>> /\ Len(candidates) >= 2

\* line 681
AcceptsRegularAnyVotes(candidates) ==
    candidates /= <<>> /\ total_votes(candidates) > 0

AcceptsRegular(candidates) ==
    candidates /= <<>> /\ Len(candidates) >= 2 /\ total_votes(candidates) > 0

Accepts(dept, candidates) ==
    AcceptsExterior(dept, candidates) \/ AcceptsRegular(candidates)

\* region_state with the department of this pass ended as st
Ended(st) ==
    [d \in DOMAIN region_state \cup {dept_name} |->
        IF d = dept_name THEN st ELSE region_state[d]]

\* (an iteration that passes over every other department)
NextDepartmentSkipping ==
    IF dept_idx + 1 < Len(HONDURAS_DEPARTMENTS)
    THEN /\ dept_idx' = dept_idx + 2
         /\ attempt' = 0
         /\ pc' = "select"
    ELSE /\ pc' = "update"
         /\ UNCHANGED <<dept_idx, attempt>>

\* line 609: the next department of the list, or the return of line 698
NextDepartment ==
    IF dept_idx < Len(HONDURAS_DEPARTMENTS)
    THEN /\ dept_idx' = dept_idx + 1
         /\ attempt' = 0
         /\ pc' = "select"
    ELSE /\ pc' = "update"
         /\ UNCHANGED <<dept_idx, attempt>>

\* (a loop that gives up the whole iteration once a department is exhausted)
AfterAttemptAbort(outcome, n, total) ==
    /\ last_attempt' = [dept |-> dept_name, attempt |-> attempt,
                        outcome |-> outcome, n |-> n, total |-> total]
    /\ IF attempt + 1 < max_retries(dept_name)
       THEN /\ attempt' = attempt + 1
            /\ pc' = "select"
            /\ UNCHANGED <<dept_idx, region_state>>
       ELSE /\ region_state' = Ended("exhausted")
            /\ pc' = "update"
            /\ UNCHANGED <<dept_idx, attempt>>

\* (a failed attempt made again under the same number)
AfterAttemptAgain(outcome, n, total) ==
    /\ last_attempt' = [dept |-> dept_name, attempt |-> attempt,
                        outcome |-> outcome, n |-> n, total |-> total]
    /\ pc' = "select"
    /\ UNCHANGED <<dept_idx, attempt, region_state>>

\* the end of one pass of the attempt loop without break: the next attempt of
\* range(max_retries), or the next department
AfterAttempt(outcome, n, total) ==
    /\ last_attempt' = [dept |-> dept_name, attempt |-> attempt,
                        outcome |-> outcome, n |-> n, total |-> total]
    /\ IF attempt + 1 < max_retries(dept_name)
       THEN /\ attempt' = attempt + 1
            /\ pc' = "select"
            /\ UNCHANGED <<dept_idx, region_state>>
       ELSE /\ region_state' = Ended("exhausted")
            /\ NextDepartment

\* (an attempt loop that goes on after the department has ended)
AfterBreakRetries(outcome, n, total) ==
    /\ last_attempt' = [dept |-> dept_name, attempt |-> attempt,
                        outcome |-> outcome, n |-> n, total |-> total]
    /\ region_state' = Ended(outcome)
    /\ IF attempt + 1 < max_retries(dept_name)
       THEN /\ attempt' = attempt + 1
            /\ pc' = "select"
            /\ UNCHANGED dept_idx
       ELSE NextDepartment

\* a break out of the attempt loop
AfterBreak(outcome, n, total) ==
    /\ last_attempt' = [dept |-> dept_name, attempt |-> attempt,
                        outcome |-> outcome, n |-> n, total |-> total]
    /\ region_state' = Ended(outcome)
    /\ NextDepartment

\* lines 622-624: no code for the department
\* (a department without a code retried like a failed attempt)
NoCodeRetries == AfterAttempt("no_code", 0, 0)

NoCode == AfterBreak("no_code", 0, 0)

\* lines 553-582 and 607: the dropdown is found, or the function returns {}
FindDropdown ==
    /\ pc = "dropdown"
    /\ dept_results' = <<>>
    /\ region_state' = <<>>
    /\ \/ /\ pc' = "select"
          /\ dept_idx' = 1
          /\ attempt' = 0
          /\ UNCHANGED budget
       \/ /\ budget > 0
          /\ budget' = budget - 1
          /\ pc' = "update"
          /\ UNCHANGED <<dept_idx, attempt>>
    /\ UNCHANGED <<browser_page, results, dept_codes, department_data, projection_df,
                   last_attempt>>
    /\ UNCHANGED <<cp_call, main_vars>>

\* lines 620-628: the code of the department; without one the loop breaks;
\* select_option selects it, or raises into the handler of 694-696
SelectDepartment ==
    /\ pc = "select"
    /\ IF dept_name \notin DOMAIN dept_codes
       THEN /\ NoCode
            /\ UNCHANGED budget
       ELSE \/ /\ pc' = "submit"
               /\ UNCHANGED <<dept_idx, attempt, budget, last_attempt, region_state>>
            \/ /\ budget > 0
               /\ budget' = budget - 1
               /\ AfterAttempt("select_error", 0, 0)
    /\ UNCHANGED <<browser_page, results, dept_results, dept_codes, department_data,
                   projection_df>>
    /\ UNCHANGED <<cp_call, main_vars>>

\* lines 630-659: the Consultar button is clicked, or no way of clicking it
\* works and the attempt is given up by continue
ClickConsultar ==
    /\ pc = "submit"
    /\ \/ /\ pc' = "wait"
          /\ UNCHANGED <<dept_idx, attempt, budget, last_attempt, region_state>>
       \/ /\ budget > 0
          /\ budget' = budget - 1
          /\ AfterAttempt("no_click", 0, 0)
    /\ UNCHANGED <<browser_page, results, dept_results, dept_codes, department_data,
                   projection_df>>
    /\ UNCHANGED <<cp_call, main_vars>>

\* line 662: the settle delay, after which the page shows the department's
\* results, or what a slow render left
WaitForData ==
    /\ pc = "wait"
    /\ \/ /\ browser_page' = NominalPages[dept_idx]
          /\ UNCHANGED budget
       \/ /\ budget > 0
          /\ budget' = budget - 1
          /\ browser_page' \in FaultPages
    /\ pc' = "extract"
    /\ UNCHANGED <<results, dept_results, dept_codes, dept_idx, attempt,
                   department_data, projection_df, last_attempt, region_state>>
    /\ UNCHANGED <<cp_call, main_vars>>

\* lines 664-692: extract, validate, then accept and break, or retry
ExtractAndValidate ==
    /\ pc = "extract"
    /\ LET actas_pct == ActasOf[browser_page]
           candidates == CandidatesOf[browser_page]
       IN  IF Accepts(dept_name, candidates)
           THEN /\ dept_results' =
                       Put(dept_results, dept_name,
                           [actas_percentage |-> actas_pct, candidates |-> candidates])
                /\ AfterBreak("accepted", Len(candidates), total_votes(candidates))
           ELSE /\ UNCHANGED dept_results
                /\ AfterAttempt("rejected", Len(candidates), total_votes(candidates))
    /\ UNCHANGED <<browser_page, results, dept_codes, department_data, projection_df,
                   budget>>
    /\ UNCHANGED <<cp_call, main_vars>>

(***************************************************************************)
(* ElectionScraper.scrape_with_existing_browser (src/main.py 488-542).     *)
(***************************************************************************)
\* lines 494-511: the browser is reached and the page reloaded; with no page
\* the result is {}; an exception of goto or reload leaves results empty
ConnectAndReload ==
    /\ pc = "connect"
    /\ results' = <<>>
    /\ \/ /\ browser_page' = "nacional"
          /\ pc' = "nacional"
          /\ UNCHANGED budget
       \/ /\ budget > 0
          /\ budget' = budget - 1
          /\ \/ browser_page' \in FaultPages /\ pc' = "nacional"
             \/ UNCHANGED browser_page /\ pc' = "returned"
    /\ UNCHANGED <<dept_results, dept_codes, dept_idx, attempt, department_data,
                   projection_df, last_attempt, region_state>>
    /\ UNCHANGED <<cp_call, main_vars>>

\* lines 513-523
ExtractNacional ==
    /\ pc = "nacional"
    /\ LET actas_pct == ActasOf[browser_page]
           candidates == CandidatesOf[browser_page]
       IN  results' = IF candidates /= <<>>
                      THEN Put(results, "Nacional",
                               [actas_percentage |-> actas_pct,
                                candidates |-> candidates])
                      ELSE results
    /\ pc' = "dropdown"
    /\ UNCHANGED <<browser_page, dept_results, dept_codes, dept_idx, attempt,
                   department_data, projection_df, budget, last_attempt, region_state>>
    /\ UNCHANGED <<cp_call, main_vars>>

\* results.update(dept_results)
RECURSIVE Update(_, _)
Update(d, other) ==
    IF other = <<>> THEN d
    ELSE Update(Put(d, Head(other).key, Head(other).val), Tail(other))

\* lines 529-542
UpdateResults ==
    /\ pc = "update"
    /\ results' = IF dept_results /= <<>> THEN Update(results, dept_results)
                  ELSE results
    /\ pc' = "returned"
    /\ UNCHANGED <<browser_page, dept_results, dept_codes, dept_idx, attempt,
                   department_data, projection_df, budget, last_attempt, region_state>>
    /\ UNCHANGED <<cp_call, main_vars>>

(***************************************************************************)
(* main (src/main.py 1605-1612): the cycle's map and its projection.       *)
(***************************************************************************)
ReceiveData ==
    /\ pc = "returned"
    /\ department_data' = results
    /\ pc' = IF results /= <<>> /\ ~HasKey(results, "raw_data")
             THEN "aggregate" ELSE "done"
    /\ UNCHANGED <<browser_page, results, dept_results, dept_codes, dept_idx, attempt,
                   projection_df, budget, last_attempt, region_state>>
    /\ UNCHANGED <<cp_call, main_vars>>

Aggregate ==
    /\ pc = "aggregate"
    /\ projection_df' \in calculate_national_projection(department_data)
    /\ pc' = "done"
    /\ UNCHANGED <<browser_page, results, dept_results, dept_codes, dept_idx, attempt,
                   department_data, budget, last_attempt, region_state>>
    /\ UNCHANGED <<cp_call, main_vars>>

\* no call of calculate_projection is followed
NoCall == [current_votes |-> 0, actas_percentage |-> IntRat(0), result |-> <<>>]

\* no cycle of main() has begun
NoStart ==
    [cache |-> <<>>, marker |-> <<>>, history |-> <<>>, snapshot |-> <<>>,
     by_marker |-> FALSE]

\* the files, the memory and the clock of a main() that is not followed
MainIdle ==
    /\ cache_file = <<>>
    /\ data_updated = <<>>
    /\ historical_file = <<>>
    /\ trigger_file = FALSE
    /\ last_results = <<>>
    /\ display = <<>>
    /\ now = 0
    /\ fetch_outcome = "none"
    /\ cache_valid = TRUE
    /\ polls = 0
    /\ cycle_start = NoStart

(***************************************************************************)
(* SpecScrape: one acquisition cycle, from the connection to the browser   *)
(* to the national projection, against a site that injects at most         *)
(* FaultBudget faults.                                                     *)
(***************************************************************************)
InitCycle(codes, faults) ==
    /\ pc = "connect"
    /\ browser_page = "blank"
    /\ results = <<>>
    /\ dept_results = <<>>
    /\ dept_codes = codes
    /\ dept_idx = 1
    /\ attempt = 0
    /\ department_data = <<>>
    /\ projection_df = <<>>
    /\ budget = faults
    /\ last_attempt = NoAttempt
    /\ region_state = <<>>
    /\ cp_call = NoCall
    /\ MainIdle

InitScrape == InitCycle(DeptCodes, FaultBudget)

NextScrape ==
    \/ ConnectAndReload
    \/ ExtractNacional
    \/ FindDropdown
    \/ SelectDepartment
    \/ ClickConsultar
    \/ WaitForData
    \/ ExtractAndValidate
    \/ UpdateResults
    \/ ReceiveData
    \/ Aggregate

SpecScrape == InitScrape /\ [][NextScrape]_vars

(***************************************************************************)
(* SpecCodes: the same cycle with a code table that lacks up to            *)
(* MaxUnmapped departments.  The table of lines 585-605 names all nineteen,*)
(* so the branch of lines 622-624 is taken only under such a table.        *)
(***************************************************************************)
UnmappedSets ==
    {S \in SUBSET Range(HONDURAS_DEPARTMENTS) : Cardinality(S) <= MaxUnmapped}

InitCodes ==
    \E S \in UnmappedSets :
        InitCycle([d \in Range(HONDURAS_DEPARTMENTS) \ S |-> DeptCodes[d]],
                  CodesFaultBudget)

SpecCodes == InitCodes /\ [][NextScrape]_vars

(***************************************************************************)
(* SpecProj: calculate_national_projection applied to a map of up to       *)
(* MaxDepts entries.                                                       *)
(***************************************************************************)
NameX == <<"X">>

NameY == <<"Y">>

NameTotal == <<"T", "O", "T", "A", "L">>

\* region snapshots: R1 and R2 at 50 and 100 percent, one region at 50
\* percent, one without a percentage, one with a total row and small tallies
SnapR1 == [actas_percentage |-> IntRat(50),
           candidates |-> <<[name |-> NameX, votes |-> 100],
                            [name |-> NameY, votes |-> 50]>>]

SnapR2 == [actas_percentage |-> IntRat(100),
           candidates |-> <<[name |-> NameX, votes |-> 200],
                            [name |-> NameY, votes |-> 300]>>]

SnapHalf == [actas_percentage |-> IntRat(50),
             candidates |-> <<[name |-> NameX, votes |-> 1000],
                              [name |-> NameY, votes |-> 500]>>]

SnapNoActas == [actas_percentage |-> IntRat(0),
                candidates |-> <<[name |-> NameX, votes |-> 300]>>]

SnapTotals == [actas_percentage |-> IntRat(30),
               candidates |-> <<[name |-> NameTotal, votes |-> 5000],
                                [name |-> NameX, votes |-> 99],
                                [name |-> NameY, votes |-> 100]>>]

NameW == <<"W">>

NameZ == <<"Z">>

\* a fully counted region where X and Y have the same votes
SnapTie == [actas_percentage |-> IntRat(100),
            candidates |-> <<[name |-> NameW, votes |-> 400],
                             [name |-> NameX, votes |-> 300],
                             [name |-> NameY, votes |-> 300],
                             [name |-> NameZ, votes |-> 200]>>]

\* a region whose page showed a percentage far above 100: the projection of
\* its tally is below one vote
SnapBeyond == [actas_percentage |-> IntRat(20000),
               candidates |-> <<[name |-> NameX, votes |-> 100]>>]

ProjSnapshots ==
    {SnapR1, SnapR2, SnapHalf, SnapNoActas, SnapTotals, SnapTie, SnapBeyond}

ProjKeys == {"Nacional", "raw_data", "ATLANTIDA", "COLON"}

\* the value under 'Nacional' or 'raw_data' is never read by the aggregation:
\* one snapshot stands for it
ProjEntries ==
    {e \in [key : ProjKeys, val : ProjSnapshots] :
        e.key \in {"Nacional", "raw_data"} => e.val = SnapHalf}

\* the dicts of up to MaxDepts entries: no key twice
ProjInputs ==
    {d \in UNION {[1..n -> ProjEntries] : n \in 0..MaxDepts} :
        \A i, j \in 1..Len(d) : d[i].key = d[j].key => i = j}

InitProj ==
    /\ pc = "aggregate"
    /\ department_data \in ProjInputs
    /\ browser_page = "blank"
    /\ results = <<>>
    /\ dept_results = <<>>
    /\ dept_codes = DeptCodes
    /\ dept_idx = 1
    /\ attempt = 0
    /\ projection_df = <<>>
    /\ budget = 0
    /\ last_attempt = NoAttempt
    /\ region_state = <<>>
    /\ cp_call = NoCall
    /\ MainIdle

NextProj == Aggregate

SpecProj == InitProj /\ [][NextProj]_vars

(***************************************************************************)
(* SpecCalc: calculate_projection applied to one tally and one percentage, *)
(* and the aggregation of a one-region map that holds the same tally at    *)
(* the same percentage.                                                    *)
(***************************************************************************)
CalcVotes == (0..MaxVotes) \cup {100, 300, 1000}

CalcPercentages ==
    {IntRat(-100), Rat(-1, 2), IntRat(0), Rat(1, 2), IntRat(30), IntRat(50),
     Rat(115, 2), IntRat(100), IntRat(150)}

InitCalc ==
    \E v \in CalcVotes, p \in CalcPercentages :
        /\ cp_call = [current_votes |-> v, actas_percentage |-> p, result |-> <<>>]
        /\ department_data =
               <<[key |-> "ATLANTIDA",
                  val |-> [actas_percentage |-> p,
                           candidates |-> <<[name |-> NameX, votes |-> v]>>]]>>
        /\ pc = "aggregate"
        /\ browser_page = "blank"
        /\ results = <<>>
        /\ dept_results = <<>>
        /\ dept_codes = DeptCodes
        /\ dept_idx = 1
        /\ attempt = 0
        /\ projection_df = <<>>
        /\ budget = 0
        /\ last_attempt = NoAttempt
        /\ region_state = <<>>
        /\ MainIdle

\* lines 345-353: the call returns
CalculateProjection ==
    /\ cp_call.result = <<>>
    /\ cp_call' = [cp_call EXCEPT
                      !.result = <<calculate_projection(cp_call.current_votes,
                                                        cp_call.actas_percentage)>>]
    /\ UNCHANGED <<pc, department_data, projection_df, cycle_vars, main_vars>>

NextCalc ==
    \/ CalculateProjection
    \/ Aggregate

SpecCalc == InitCalc /\ [][NextCalc]_vars

(***************************************************************************)
(* save_cache, save_historical_data, load_cache (src/main.py 274-342).     *)
(* A line of the CSV file is a record: its kind and its fields.  A string  *)
(* of the program is a sequence of characters, a number formatted with two *)
(* decimals is the number of its hundredths, and a time is a tick of now.  *)
(* A field of a candidate slot is the text the csv writer puts in the      *)
(* file: a name is its characters, a number n is <<n>>, and <<>> is the    *)
(* empty field.                                                            *)
(***************************************************************************)
\* lines 274-281 without the write of .data_updated
save_cache_no_signal(data, t) ==
    [cache |-> <<[departments |-> data.departments,
                  projection |-> data.projection,
                  cached_at |-> t]>>,
     marker |-> <<>>]

\* lines 274-281 with the 'Nacional' entry left out of the file
save_cache_regions_only(data, t) ==
    [cache |-> <<[departments |->
                      SelectSeq(data.departments, LAMBDA e : e.key /= "Nacional"),
                  projection |-> data.projection,
                  cached_at |-> t]>>,
     marker |-> <<t>>]

\* lines 274-281: what the two files hold after the call
save_cache(data, t) ==
    [cache |-> <<[departments |-> data.departments,
                  projection |-> data.projection,
                  cached_at |-> t]>>,
     marker |-> <<t>>]

\* lines 293-298, formatted by line 319
avg_actas(data) ==
    LET regions == SelectSeq(data, LAMBDA e : e.key \notin {"raw_data", "Nacional"})
        actas_percentages ==
            [i \in 1..Len(regions) |-> regions[i].val.actas_percentage]
        total == RatSum(actas_percentages)
    IN  IF actas_percentages /= <<>>
        THEN RoundHalfEven(total.num * 100, total.den * Len(actas_percentages))
        ELSE 0

\* lines 312-316
headers ==
    [kind |-> "header",
     fields |-> <<"timestamp", "avg_actas_pct",
                  "candidato_1", "votos_actuales_1", "votos_proyectados_1", "porcentaje_1",
                  "candidato_2", "votos_actuales_2", "votos_proyectados_2", "porcentaje_2",
                  "candidato_3", "votos_actuales_3", "votos_proyectados_3", "porcentaje_3">>]

\* line 306 without head(3)
all_candidates(df) == df

\* line 306: projection_df.head(3)
top_candidates(df) == SubSeq(df, 1, IF Len(df) < 3 THEN Len(df) ELSE 3)

\* lines 320-326
RECURSIVE ExtendRow(_, _)
ExtendRow(row, candidates) ==
    IF candidates = <<>> THEN row
    ELSE ExtendRow(row \o <<Head(candidates).Candidate,
                             <<Head(candidates).CurrentVotes>>,
                             <<Head(candidates).ProjectedVotes>>,
                             <<Head(candidates).Percentage>> >>,
                   Tail(candidates))

\* lines 329-330
RECURSIVE PadRow(_)
PadRow(row) ==
    IF Len(row) < 14 THEN PadRow(row \o << <<>>, <<0>>, <<0>>, <<0>> >>) ELSE row

\* lines 319-326 without the padding of lines 329-330
HistoryRowUnpadded(data, df, t) ==
    [kind |-> "row",
     fields |-> ExtendRow(<<t, avg_actas(data)>>, top_candidates(df))]

\* lines 319-330: the row written by line 332
HistoryRow(data, df, t) ==
    [kind |-> "row",
     fields |-> PadRow(ExtendRow(<<t, avg_actas(data)>>, top_candidates(df)))]

\* lines 284-334 with the file opened for writing instead of appending
save_historical_data_rewrite(file, data, df, t) ==
    <<headers, HistoryRow(data, df, t)>>

\* lines 284-334: the lines of the file after the call; file = <<>> is a file
\* that does not exist
save_historical_data(file, data, df, t) ==
    IF file = <<>>
    THEN <<headers, HistoryRow(data, df, t)>>
    ELSE Append(file, HistoryRow(data, df, t))

\* lines 337-342
load_cache == cache_file

(***************************************************************************)
(* main (src/main.py 1535-1653).  The acquisition is taken as a whole: it  *)
(* returns one of the maps of Acquired or raises.                          *)
(***************************************************************************)
NameV == <<"V">>

\* a region of three candidates at 80 percent
SnapThree == [actas_percentage |-> IntRat(80),
              candidates |-> <<[name |-> NameV, votes |-> 800],
                               [name |-> NameX, votes |-> 600],
                               [name |-> NameY, votes |-> 400]>>]

MapNacional == <<[key |-> "Nacional", val |-> SnapHalf]>>

MapExterior == <<[key |-> "Nacional", val |-> SnapHalf],
                 [key |-> Exterior, val |-> SnapR1]>>

MapTwo == <<[key |-> "Nacional", val |-> SnapHalf],
            [key |-> "ATLANTIDA", val |-> SnapHalf]>>

MapThree == <<[key |-> "Nacional", val |-> SnapHalf],
              [key |-> "ATLANTIDA", val |-> SnapThree]>>

MapFive == <<[key |-> "Nacional", val |-> SnapHalf],
             [key |-> "ATLANTIDA", val |-> SnapTie],
             [key |-> "COLON", val |-> SnapThree]>>

MapRegion == <<[key |-> "COLON", val |-> SnapHalf]>>

\* what scrape_with_existing_browser returns: {} , the national entry alone,
\* the national entry and the accepted regions, or accepted regions alone
Acquired == {<<>>, MapNacional, MapExterior, MapTwo, MapThree, MapFive, MapRegion}

\* no earlier run: neither file exists
NoCache == [cache |-> <<>>, marker |-> <<>>]

\* the files left by an earlier run that saved MapTwo at time 0
OldProjection == CHOOSE df \in calculate_national_projection(MapTwo) : TRUE

OldCache ==
    save_cache([departments |-> MapTwo, projection |-> OldProjection], 0)

OldHistory == save_historical_data(<<>>, MapTwo, OldProjection, 0)

\* lines 1571 and 1607
IsUsable(data) == data /= <<>> /\ ~HasKey(data, "raw_data")

\* lines 1577-1580 and 1615-1618
cache_data == [departments |-> department_data, projection |-> projection_df]

\* display_results(cached_df, "OFFLINE", cached_time)
ShowCached(snapshot) ==
    <<[status |-> "OFFLINE",
       rows |-> snapshot.projection,
       cached_time |-> <<snapshot.cached_at>>]>>

\* display_results(pd.DataFrame(), "OFFLINE")
ShowEmpty == <<[status |-> "OFFLINE", rows |-> <<>>, cached_time |-> <<>>]>>

\* the files at the start of a cycle whose previous snapshot is snapshot,
\* and whether the marker cut the wait before it
StartOf(snapshot, by_marker) ==
    [cache |-> cache_file, marker |-> data_updated, history |-> historical_file,
     snapshot |-> snapshot, by_marker |-> by_marker]

\* the cache file of an earlier run is absent, whole, or cut short by a
\* stop during its write
InitMain ==
    /\ pc = "m_launch"
    /\ \E old \in {NoCache, OldCache} :
           cache_file = old.cache /\ data_updated = old.marker
    /\ cache_valid \in IF cache_file = <<>> THEN {TRUE} ELSE BOOLEAN
    /\ historical_file \in {<<>>, OldHistory}
    /\ trigger_file \in BOOLEAN
    /\ last_results = <<>>
    /\ display = <<>>
    /\ now = 1
    /\ fetch_outcome = "none"
    /\ polls = 0
    /\ cycle_start = StartOf(cache_file, FALSE)
    /\ department_data = <<>>
    /\ projection_df = <<>>
    /\ cp_call = NoCall
    /\ browser_page = "blank"
    /\ results = <<>>
    /\ dept_results = <<>>
    /\ dept_codes = DeptCodes
    /\ dept_idx = 1
    /\ attempt = 0
    /\ budget = 0
    /\ last_attempt = NoAttempt
    /\ region_state = <<>>

\* lines 1544-1561: the browser is launched and the first acquisition made,
\* or the launch fails and department_data stays None; an exception of the
\* acquisition is not caught and ends the program
Phase1 ==
    /\ pc = "m_launch"
    /\ \/ /\ department_data' \in Acquired
          /\ fetch_outcome' = "returned"
          /\ pc' = "m_phase2"
       \/ /\ UNCHANGED <<department_data, fetch_outcome>>
          /\ pc' = "m_phase2"
       \/ /\ UNCHANGED department_data
          /\ fetch_outcome' = "raised"
          /\ pc' = "m_crashed"
    /\ UNCHANGED <<projection_df, cp_call, cycle_vars, cache_file, data_updated,
                   historical_file, trigger_file, last_results, display, now,
                   cache_valid, polls, cycle_start>>

\* lines 1567-1576 and 1584-1589: the cache is loaded, outside any try, and
\* the data of phase 1 projected; json.load raises on a file cut short
Phase2 ==
    /\ pc = "m_phase2"
    /\ IF cache_file /= <<>> /\ ~cache_valid
       THEN /\ pc' = "m_crashed"
            /\ UNCHANGED <<last_results, projection_df, display>>
       ELSE /\ last_results' = load_cache
            /\ IF IsUsable(department_data)
               THEN \E df \in calculate_national_projection(department_data) :
                        /\ projection_df' = df
                        /\ display' = <<>>
                        /\ pc' = IF df /= <<>> THEN "m_save_cache" ELSE "m_wait"
               ELSE /\ display' = IF load_cache /= <<>> THEN ShowCached(load_cache[1])
                                  ELSE <<>>
                    /\ pc' = "m_wait"
                    /\ UNCHANGED projection_df
    /\ UNCHANGED <<department_data, cp_call, cycle_vars, cache_file, data_updated,
                   historical_file, trigger_file, now, fetch_outcome, cache_valid,
                   polls, cycle_start>>

\* lines 1594-1599 with the marker left in place
AfterPollKeepsMarker(present, n) ==
    IF present \/ n + 1 >= PollsPerWait
    THEN [pc |-> "m_fetch", polls |-> 0, trigger_file |-> present]
    ELSE [pc |-> "m_wait", polls |-> n + 1, trigger_file |-> present]

\* lines 1594-1599: after the sleep of poll n + 1, with the marker present
\* or not
AfterPoll(present, n) ==
    IF present \/ n + 1 >= PollsPerWait
    THEN [pc |-> "m_fetch", polls |-> 0, trigger_file |-> FALSE]
    ELSE [pc |-> "m_wait", polls |-> n + 1, trigger_file |-> FALSE]

\* lines 1594-1599: one sleep of 5 seconds and the test of the marker; the
\* cycle begins when the loop is left
Poll ==
    /\ pc = "m_wait"
    /\ now <= MaxCycles
    /\ LET after == AfterPoll(trigger_file, polls)
       IN  /\ pc' = after.pc
           /\ polls' = after.polls
           /\ trigger_file' = after.trigger_file
           /\ IF after.pc = "m_fetch"
              THEN /\ now' = now + 1
                   /\ display' = <<>>
                   /\ cycle_start' = StartOf(last_results, trigger_file)
              ELSE UNCHANGED <<now, display, cycle_start>>
    /\ UNCHANGED <<department_data, projection_df, cp_call, cycle_vars, cache_file,
                   data_updated, historical_file, last_results, fetch_outcome,
                   cache_valid>>

\* lines 1622-1629, 1630-1637 and 1646-1651: what a cycle without a
\* projection shows
Fallback(or_empty) ==
    display' = IF last_results /= <<>> THEN ShowCached(last_results[1])
               ELSE IF or_empty THEN ShowEmpty ELSE <<>>

\* lines 1602-1605 and 1642-1651: the acquisition returns a map, or raises
\* and the handler shows the cached snapshot
Fetch ==
    /\ pc = "m_fetch"
    /\ \/ /\ department_data' \in Acquired
          /\ fetch_outcome' = "returned"
          /\ pc' = "m_process"
          /\ UNCHANGED display
       \/ /\ Fallback(FALSE)
          /\ fetch_outcome' = "raised"
          /\ pc' = "m_wait"
          /\ UNCHANGED department_data
    /\ UNCHANGED <<projection_df, cp_call, cycle_vars, cache_file, data_updated,
                   historical_file, trigger_file, last_results, now, cache_valid,
                   polls, cycle_start>>

\* lines 1607-1614 and 1622-1637: the map is projected and either saved or
\* replaced on the screen by the cached snapshot
Process ==
    /\ pc = "m_process"
    /\ IF IsUsable(department_data)
       THEN \E df \in calculate_national_projection(department_data) :
                /\ projection_df' = df
                /\ IF df /= <<>>
                   THEN pc' = "m_save_cache" /\ UNCHANGED display
                   ELSE pc' = "m_wait" /\ Fallback(TRUE)
       ELSE /\ pc' = "m_wait"
            /\ Fallback(TRUE)
            /\ UNCHANGED projection_df
    /\ UNCHANGED <<department_data, cp_call, cycle_vars, cache_file, data_updated,
                   historical_file, trigger_file, last_results, now, fetch_outcome,
                   cache_valid, polls, cycle_start>>

\* (the marker written where the cache file should be)
SaveCacheMarkerFirst ==
    /\ pc = "m_save_cache"
    /\ data_updated' = save_cache(cache_data, now).marker
    /\ pc' = "m_save_marker"
    /\ UNCHANGED <<department_data, projection_df, cp_call, cycle_vars, cache_file,
                   historical_file, trigger_file, last_results, display, now,
                   fetch_outcome, cache_valid, polls, cycle_start>>

\* lines 275-278, called by lines 1581 and 1619: the cache file is rewritten
SaveCache ==
    /\ pc = "m_save_cache"
    /\ cache_file' = save_cache(cache_data, now).cache
    /\ cache_valid' = TRUE
    /\ pc' = "m_save_marker"
    /\ UNCHANGED <<department_data, projection_df, cp_call, cycle_vars, data_updated,
                   historical_file, trigger_file, last_results, display, now,
                   fetch_outcome, polls, cycle_start>>

\* lines 279-281: the marker is written
WriteMarker ==
    /\ pc = "m_save_marker"
    /\ data_updated' = save_cache(cache_data, now).marker
    /\ pc' = "m_save_history"
    /\ UNCHANGED <<department_data, projection_df, cp_call, cycle_vars, cache_file,
                   historical_file, trigger_file, last_results, display, now,
                   fetch_outcome, cache_valid, polls, cycle_start>>

\* lines 1582-1583 and 1620-1621: the row is appended and the snapshot kept
\* in memory
SaveHistory ==
    /\ pc = "m_save_history"
    /\ historical_file' =
           save_historical_data(historical_file, department_data, projection_df, now)
    /\ last_results' = cache_file
    /\ pc' = "m_wait"
    /\ UNCHANGED <<department_data, projection_df, cp_call, cycle_vars, cache_file,
                   data_updated, trigger_file, display, now, fetch_outcome,
                   cache_valid, polls, cycle_start>>

\* the positions of a main() that runs
Running ==
    {"m_launch", "m_phase2", "m_wait", "m_fetch", "m_process", "m_save_cache",
     "m_save_marker", "m_save_history"}

\* Ctrl+C: KeyboardInterrupt is raised wherever main() is; lines 1639-1641
\* catch it inside the loop and nothing catches it before the loop, and in
\* both cases the program ends.  Raised inside json.dump (line 277) it leaves
\* the cache file opened for writing and cut short.
Interrupt ==
    /\ pc \in Running
    /\ pc' = "m_stopped"
    /\ \/ UNCHANGED <<cache_file, cache_valid>>
       \/ /\ pc = "m_save_cache"
          /\ cache_file' = save_cache(cache_data, now).cache
          /\ cache_valid' = FALSE
    /\ UNCHANGED <<department_data, projection_df, cp_call, cycle_vars, data_updated,
                   historical_file, trigger_file, last_results, display, now,
                   fetch_outcome, polls, cycle_start>>

\* the dashboard asks for a cycle by creating .trigger_scrape
RequestScrape ==
    /\ pc \in Running
    /\ ~trigger_file
    /\ trigger_file' = TRUE
    /\ UNCHANGED <<pc, department_data, projection_df, cp_call, cycle_vars, cache_file,
                   data_updated, historical_file, last_results, display, now,
                   fetch_outcome, cache_valid, polls, cycle_start>>

NextMain ==
    \/ Phase1
    \/ Phase2
    \/ Poll
    \/ Fetch
    \/ Process
    \/ SaveCache
    \/ WriteMarker
    \/ SaveHistory
    \/ Interrupt
    \/ RequestScrape

SpecMain == InitMain /\ [][NextMain]_vars

(***************************************************************************)
(* SpecHist: save_historical_data called up to MaxAppends times, on the    *)
(* maps of Acquired and their projections, the empty one included.         *)
(***************************************************************************)
InitHist ==
    /\ pc = "h_save"
    /\ historical_file \in {<<>>, OldHistory}
    /\ now = 1
    /\ cache_file = <<>>
    /\ data_updated = <<>>
    /\ trigger_file = FALSE
    /\ last_results = <<>>
    /\ display = <<>>
    /\ fetch_outcome = "none"
    /\ cache_valid = TRUE
    /\ polls = 0
    /\ cycle_start = NoStart
    /\ department_data = <<>>
    /\ projection_df = <<>>
    /\ cp_call = NoCall
    /\ browser_page = "blank"
    /\ results = <<>>
    /\ dept_results = <<>>
    /\ dept_codes = DeptCodes
    /\ dept_idx = 1
    /\ attempt = 0
    /\ budget = 0
    /\ last_attempt = NoAttempt
    /\ region_state = <<>>

\* lines 284-334: one call
SaveHistoricalData ==
    /\ pc = "h_save"
    /\ now <= MaxAppends
    /\ \E data \in Acquired :
           \E df \in calculate_national_projection(data) :
               /\ department_data' = data
               /\ projection_df' = df
               /\ historical_file' = save_historical_data(historical_file, data, df, now)
    /\ now' = now + 1
    /\ UNCHANGED <<pc, cp_call, cycle_vars, cache_file, data_updated, trigger_file,
                   last_results, display, fetch_outcome, cache_valid, polls,
                   cycle_start>>

NextHist == SaveHistoricalData

SpecHist == InitHist /\ [][NextHist]_vars

(***************************************************************************)
(* SpecExtract: one extraction (src/main.py 664-687) of a page put         *)
(* together from tables, cards, elements and a body text, some of whose    *)
(* accessor calls raise, for an ordinary department and for the exterior.  *)
(***************************************************************************)
TxtAna900 == <<"9", "0", "0">>

TxtLeoRow == <<TxtLeo, <<"5", "0", "0">>>>

\* no table; a row without a number; one candidate; two candidates; a cell
\* that raises before any candidate; a cell that raises after one; an empty
\* table before a table of two; rows whose last cell, whose middle cell and
\* whose name cell alone hold a positive number
ExtractTables ==
    { <<>>,
      << << <<TxtAna, <<"0">>>> >> >>,
      << << <<TxtAna, TxtAna900>> >> >>,
      << << <<TxtAna, <<"1", ",", "0", "0", "0">>>>, TxtLeoRow >> >>,
      << << <<RaiseText, TxtAna900>>, TxtLeoRow >> >>,
      << << <<TxtAna, TxtAna900>>, <<TxtLeo, RaiseText>> >> >>,
      << << <<TxtAna>> >>, << <<TxtAna, TxtAna900>>, TxtLeoRow >> >>,
      << << <<TxtAna, <<"1", "2">>, <<"3", ".", "4", "0", "0">>>>,
            <<TxtLeo, <<"8">>, <<"0">>>>,
            <<<<"E", "v", "a", " ", "7">>, <<"-">>>> >> >> }

CardAna == <<"A", "n", "a", "\n", "2", ".", "0", "0", "0">>

CardLeo == <<"L", "e", "o", "\n", "1", ".", "5", "0", "0">>

\* no card; one card; two cards; a card that raises after one, with another
\* selector that finds one more; a card that raises alone; a card with two
\* numeric lines after its name
CardTwoNumbers == <<"1", "2", "\n", "E", "v", "a", "\n", "1", ".", "2", "3", "4", "\n", "5", "6">>

ExtractCards ==
    { NoElements,
      4 :> <<CardTwoNumbers>>,
      2 :> <<CardAna>>,
      2 :> <<CardAna, CardLeo>>,
      (1 :> <<CardAna, RaiseText>>) @@ (3 :> <<CardLeo>>),
      1 :> <<RaiseText>> }

\* no text; two candidates in the text and a third with 100 votes; a
\* percentage above 100 and one
\* candidate; a number broken by a newline after one candidate
ExtractBodies ==
    { <<>>,
      <<"A", "v", "a", "n", "c", "e", ":", " ", "3", "0", "%", "\n", "A", "n", "a", " ", "2", ",", "0", "0", "0", " ", "v", "o", "t", "o", "s", "\n", "L", "e", "o", ":", " ", "1", "5", "0", "\n", "E", "v", "a", ":", " ", "1", "0", "0">>,
      <<"1", ",", "2", "3", "4", ".", "5", "%", " ", "a", "c", "t", "a", "s", "\n", "A", "n", "a", ":", " ", "5", ".", "0", "0", "0">>,
      <<"A", "c", "t", "a", "s", ":", " ", "5", "0", "%", "\n", "A", "n", "a", " ", "2", ",", "0", "0", "0", "\n", "L", "e", "o", " ", "1", "\n", "0", "0", "0">> }

ExtractEls == {NoElements, 1 :> <<<<"7", "5", "%">>>>}

ExtractRaises == {{}, {"table"}, {"card"}, {"body"}, {"actas_el"}}

ExtractPages ==
    {[body |-> b, tables |-> t, cards |-> c, els |-> e, raises |-> r] :
        b \in ExtractBodies, t \in ExtractTables, c \in ExtractCards,
        e \in ExtractEls, r \in ExtractRaises}

InitExtract ==
    /\ pc = "x_extract"
    /\ browser_page \in ExtractPages
    /\ results = <<>>
    /\ dept_results = <<>>
    /\ dept_codes = DeptCodes
    /\ dept_idx \in {1, Len(HONDURAS_DEPARTMENTS)}
    /\ attempt = 0
    /\ department_data = <<>>
    /\ projection_df = <<>>
    /\ budget = 0
    /\ last_attempt = NoAttempt
    /\ region_state = <<>>
    /\ cp_call = NoCall
    /\ MainIdle

\* lines 664-687 on the page itself: results holds what the two extractions
\* returned, dept_results the snapshot when the attempt is accepted
ExtractPage ==
    /\ pc = "x_extract"
    /\ LET actas_pct == extract_actas_percentage(browser_page)
           candidates == extract_candidates(browser_page)
       IN  /\ results' = [actas_percentage |-> actas_pct, candidates |-> candidates]
           /\ dept_results' =
                  IF Accepts(dept_name, candidates)
                  THEN Put(dept_results, dept_name,
                           [actas_percentage |-> actas_pct, candidates |-> candidates])
                  ELSE dept_results
    /\ pc' = "x_done"
    /\ UNCHANGED <<browser_page, dept_codes, dept_idx, attempt, department_data,
                   projection_df, budget, last_attempt, region_state>>
    /\ UNCHANGED <<cp_call, main_vars>>

NextExtract == ExtractPage

SpecExtract == InitExtract /\ [][NextExtract]_vars

(***************************************************************************)
(* Vocabulary of the properties.                                           *)
(***************************************************************************)
Depts == Range(HONDURAS_DEPARTMENTS)

LoopPcs == {"select", "submit", "wait", "extract"}

AfterLoopPcs == {"returned", "aggregate", "done"}

FailedOutcomes == {"rejected", "no_click", "select_error"}

\* the sum of the votes of a candidate list, every entry counted
VoteSum(candidates) == SumSeq([i \in 1..Len(candidates) |-> candidates[i].votes])

\* a map without its 'Nacional' and 'raw_data' entries
WithoutUmbrella(data) ==
    SelectSeq(data, LAMBDA e : e.key \notin {"Nacional", "raw_data"})

\* projected(v, p) = v if p <= 0 else v * 100 / p
Projected(v, p) == IF p.num <= 0 THEN IntRat(v) ELSE Rat(v * 100 * p.den, p.num)

\* the sum of the tallies named name with at least min votes, over the
\* regions of the map other than the umbrella entries
TallySum(data, name, min) ==
    LET regions == WithoutUmbrella(data)
        OfRegion(snap) ==
            SumSeq([j \in 1..Len(snap.candidates) |->
                       IF snap.candidates[j].name = name /\ snap.candidates[j].votes >= min
                       THEN snap.candidates[j].votes ELSE 0])
    IN  SumSeq([i \in 1..Len(regions) |-> OfRegion(regions[i].val)])

\* the same sum over the tallies scaled by the percentage of their own region
TallyProjected(data, name, min) ==
    LET regions == WithoutUmbrella(data)
        OfRegion(snap) ==
            RatSum([j \in 1..Len(snap.candidates) |->
                       IF snap.candidates[j].name = name /\ snap.candidates[j].votes >= min
                       THEN Projected(snap.candidates[j].votes, snap.actas_percentage)
                       ELSE IntRat(0)])
    IN  RatSum([i \in 1..Len(regions) |-> OfRegion(regions[i].val)])

\* the name holds one of the denylist keywords, whatever its case
Denied(name) ==
    \E k \in 1..Len(exclude_keywords) : Contains(Lower(name), exclude_keywords[k])

\* the tallies of the regions of a map, as <<region index, entry index>>
TalliesOf(data) ==
    UNION {{<<i, j>> : j \in 1..Len(data[i].val.candidates)} :
              i \in {k \in 1..Len(data) : data[k].key \notin {"Nacional", "raw_data"}}}

TallyAt(data, ij) == data[ij[1]].val.candidates[ij[2]]

RowOf(name) == {p \in 1..Len(projection_df) : projection_df[p].Candidate = name}

\* what the free-text pattern matches in a page, before the threshold of 1024
MatchesOf ==
    [id \in PageIds |->
        LET m == FindAll(Pages[id].body, 1)
        IN  [i \in 1..Len(m) |->
                [name |-> Strip(m[i].name),
                 votes |-> ParseInt(Without(m[i].votes_str, Separators))]]]

\* the pages whose list comes from the free-text strategy
TextPages ==
    {id \in PageIds : TableScan(Pages[id]).cands = <<>> /\ CardScan(Pages[id]) = <<>>}

(***************************************************************************)
(* Properties of the region loop (SpecScrape, SpecCodes).                  *)
(***************************************************************************)

\* C1: a department enters the result map only by an attempt whose extraction
\* gives at least 2 candidates and, for an ordinary department, a vote sum
\* above 0; an ordinary attempt is accepted iff both hold, and the attempt of
\* VOTO EN EL EXTERIOR iff the list has at least 2 candidates.
C1_AcceptanceCriteria ==
    [][(LET candidates == CandidatesOf[browser_page]
           enough == Len(candidates) >= 2
           some_votes == VoteSum(candidates) > 0
       IN  /\ \A d \in Depts :
                  ~HasKey(dept_results, d) /\ HasKey(dept_results', d)
                      => /\ pc = "extract"
                         /\ d = dept_name
                         /\ enough
                         /\ (d /= Exterior => some_votes)
           /\ pc = "extract" /\ dept_name /= Exterior
                  => (HasKey(dept_results', dept_name) <=> enough /\ some_votes)
           /\ pc = "extract" /\ dept_name = Exterior
                  => (HasKey(dept_results', Exterior) <=> enough))]_vars

\* the exterior was accepted with its two tallies after an ordinary
\* department had been refused on every attempt
C1_Witness ==
    /\ last_attempt.dept = Exterior
    /\ last_attempt.outcome = "accepted"
    /\ last_attempt.n >= 2
    /\ HasKey(dept_results, Exterior)
    /\ \E d \in Depts \ {Exterior} :
           d \in DOMAIN region_state /\ ~HasKey(dept_results, d)

\* C2: an ordinary department is in its attempt 0..9 and VOTO EN EL EXTERIOR
\* in its attempt 0 only; each attempt that ends without acceptance, whatever
\* the reason, is followed by the attempt numbered one more; the attempt
\* number restarts only with the next department; and the loop is left only
\* by the single attempt of VOTO EN EL EXTERIOR.
C2_AttemptsBounded ==
    /\ [](pc \in LoopPcs
             => IF dept_name = Exterior THEN attempt = 0 ELSE attempt \in 0..9)
    /\ [](pc \in LoopPcs /\ last_attempt.dept = dept_name
             => /\ last_attempt.outcome \in FailedOutcomes
                /\ attempt = last_attempt.attempt + 1)
    /\ [][(pc \in LoopPcs /\ pc' \in LoopPcs
             => \/ dept_idx' = dept_idx /\ attempt' \in {attempt, attempt + 1}
                \/ dept_idx' = dept_idx + 1 /\ attempt' = 0)]_vars
    /\ [][(pc \in LoopPcs /\ pc' \notin LoopPcs
             => /\ dept_name = Exterior
                /\ attempt = 0
                /\ last_attempt'.dept = Exterior
                /\ last_attempt'.attempt = 0)]_vars

\* the loop has returned after ten refused attempts of an ordinary
\* department and one refused attempt of the exterior
C2_Witness ==
    /\ pc = "update"
    /\ last_attempt.dept = Exterior
    /\ last_attempt.attempt = 0
    /\ last_attempt.outcome \in FailedOutcomes
    /\ \E d \in Depts \ {Exterior} :
           d \in DOMAIN region_state /\ region_state[d] = "exhausted"

\* C3: after the ninth failed attempt of an ordinary department the tenth is
\* made; a tenth attempt whose extraction meets the criteria leaves the
\* department accepted with that extraction stored; and every accepted
\* department is in the map the cycle returns.
C3_TenthAttemptCounts ==
    /\ []((/\ last_attempt.attempt = 8
           /\ last_attempt.outcome \in FailedOutcomes
           /\ last_attempt.dept /= Exterior)
             => /\ pc \in LoopPcs
                /\ dept_name = last_attempt.dept
                /\ attempt = 9)
    /\ [][((/\ pc = "extract"
            /\ attempt = 9
            /\ Len(CandidatesOf[browser_page]) >= 2
            /\ VoteSum(CandidatesOf[browser_page]) > 0)
             => /\ region_state'[dept_name] = "accepted"
                /\ HasKey(dept_results', dept_name)
                /\ Get(dept_results', dept_name).candidates
                       = CandidatesOf[browser_page])]_vars
    /\ [](pc \in AfterLoopPcs
             => \A d \in DOMAIN region_state :
                    region_state[d] = "accepted"
                        => HasKey(results, d)
                           /\ Get(results, d) = Get(dept_results, d))

\* ATLANTIDA was accepted by its tenth attempt
C3_Witness ==
    /\ last_attempt.dept = "ATLANTIDA"
    /\ last_attempt.attempt = 9
    /\ last_attempt.outcome = "accepted"
    /\ "ATLANTIDA" \in DOMAIN region_state
    /\ region_state["ATLANTIDA"] = "accepted"
    /\ HasKey(dept_results, "ATLANTIDA")

\* C4: a department that ran out of attempts is not in the map; the loop
\* still visits every department of the list, in order, before it returns;
\* and the map holds exactly the departments that were accepted, in the loop
\* and in what the cycle returns.
C4_ExhaustedOmitted ==
    /\ [](\A d \in DOMAIN region_state :
              HasKey(dept_results, d) <=> region_state[d] = "accepted")
    /\ []((/\ last_attempt.outcome \in FailedOutcomes
           /\ last_attempt.dept /= Exterior
           /\ last_attempt.attempt = 9)
             => /\ region_state[last_attempt.dept] = "exhausted"
                /\ ~HasKey(dept_results, last_attempt.dept)
                /\ pc \in LoopPcs
                /\ dept_idx > 1
                /\ HONDURAS_DEPARTMENTS[dept_idx - 1] = last_attempt.dept)
    /\ [](pc \in {"update"} \cup AfterLoopPcs /\ last_attempt /= NoAttempt
             => DOMAIN region_state = Depts)
    /\ [](pc \in AfterLoopPcs
             => \A d \in Depts :
                    HasKey(results, d)
                        <=> d \in DOMAIN region_state /\ region_state[d] = "accepted")

\* the cycle returned a map without ATLANTIDA, exhausted, and with the
\* departments after it
C4_Witness ==
    /\ pc = "returned"
    /\ "ATLANTIDA" \in DOMAIN region_state
    /\ region_state["ATLANTIDA"] = "exhausted"
    /\ ~HasKey(results, "ATLANTIDA")
    /\ HasKey(results, "COLON")
    /\ HasKey(results, Exterior)

\* C5: a department without a code never reaches the submit, wait or extract
\* step and never a second attempt; its first attempt ends at the lookup,
\* leaves the map as it was, and is followed by the next department of the
\* list (or by the return, after the last).
C5_NoCodeNoRetry ==
    /\ [](pc \in {"submit", "wait", "extract"} => dept_name \in DOMAIN dept_codes)
    /\ [](pc \in LoopPcs /\ dept_name \notin DOMAIN dept_codes => attempt = 0)
    /\ [](\A d \in DOMAIN region_state :
              d \notin DOMAIN dept_codes
                  => region_state[d] = "no_code" /\ ~HasKey(dept_results, d))
    /\ [][(pc = "select" /\ dept_name \notin DOMAIN dept_codes
             => /\ dept_results' = dept_results
                /\ browser_page' = browser_page
                /\ IF dept_idx < Len(HONDURAS_DEPARTMENTS)
                   THEN pc' = "select" /\ dept_idx' = dept_idx + 1 /\ attempt' = 0
                   ELSE pc' = "update")]_vars

\* COLON had no code: the cycle returned without it and with the department
\* that follows it
C5_Witness ==
    /\ pc = "returned"
    /\ "COLON" \notin DOMAIN dept_codes
    /\ "COLON" \in DOMAIN region_state
    /\ region_state["COLON"] = "no_code"
    /\ ~HasKey(results, "COLON")
    /\ HasKey(results, "COMAYAGUA")

(***************************************************************************)
(* Properties of the aggregation (SpecProj, SpecScrape).                   *)
(***************************************************************************)

\* C6: the national projection of a map is the projection of the same map
\* with its 'Nacional' and 'raw_data' entries removed.
C6_UmbrellaNeverSummed ==
    pc = "done"
        => projection_df
               \in calculate_national_projection(WithoutUmbrella(department_data))

\* a map with both umbrella entries and a region was aggregated
C6_Witness ==
    /\ pc = "done"
    /\ HasKey(department_data, "Nacional")
    /\ HasKey(department_data, "raw_data")
    /\ HasKey(department_data, "ATLANTIDA")
    /\ Get(department_data, "Nacional").candidates /= <<>>
    /\ projection_df /= <<>>

\* C7, as stated: each row's current votes are the sum of the candidate's
\* votes over all the regions, and its projected votes are the sum of the
\* votes scaled by each region's percentage.
C7_AsClaimed ==
    pc = "done"
        => \A p \in 1..Len(projection_df) :
               /\ projection_df[p].CurrentVotes
                      = TallySum(department_data, projection_df[p].Candidate, 0)
               /\ IntRat(projection_df[p].ProjectedVotes)
                      = TallyProjected(department_data, projection_df[p].Candidate, 0)

\* C7, amended: each row's current votes are the sum of the candidate's
\* tallies of at least 100 votes over the regions, and its projected votes are
\* the integer part of the sum of those tallies scaled by each region's own
\* percentage; one region at 50 percent with X=1000 and Y=500 gives projected
\* X=2000 and Y=1000.
C7_SumsOfCountedTallies ==
    pc = "done"
        => /\ \A p \in 1..Len(projection_df) :
                  /\ projection_df[p].CurrentVotes
                         = TallySum(department_data, projection_df[p].Candidate, 100)
                  /\ projection_df[p].ProjectedVotes
                         = RatTrunc(TallyProjected(department_data,
                                                   projection_df[p].Candidate, 100))
           /\ (/\ Len(WithoutUmbrella(department_data)) = 1
               /\ WithoutUmbrella(department_data)[1].val = SnapHalf)
                  => /\ Len(projection_df) = 2
                     /\ projection_df[1].Candidate = NameX
                     /\ projection_df[1].ProjectedVotes = 2000
                     /\ projection_df[2].Candidate = NameY
                     /\ projection_df[2].ProjectedVotes = 1000

\* two regions were aggregated, one at 30 percent with a tally of 99 and one
\* of 100, the other with a tally of 50: Y has 100 current votes and 333
\* projected ones
C7_Witness ==
    /\ pc = "done"
    /\ department_data = <<[key |-> "ATLANTIDA", val |-> SnapTotals],
                           [key |-> "COLON", val |-> SnapR1]>>
    /\ \E p \in RowOf(NameY) :
           /\ projection_df[p].CurrentVotes = 100
           /\ projection_df[p].ProjectedVotes = 333

\* C8, as stated: R1 {50, X=100, Y=50} and R2 {100, X=200, Y=300} give
\* current X=300 and Y=350, projected X=400 and Y=400, 50.00 and 50.00 percent.
C8_AsClaimed ==
    (/\ pc = "done"
     /\ Len(WithoutUmbrella(department_data)) = 2
     /\ WithoutUmbrella(department_data)[1].val = SnapR1
     /\ WithoutUmbrella(department_data)[2].val = SnapR2)
        => Range(projection_df)
               = {[Candidate |-> NameX, CurrentVotes |-> 300,
                   ProjectedVotes |-> 400, Percentage |-> 5000],
                  [Candidate |-> NameY, CurrentVotes |-> 350,
                   ProjectedVotes |-> 400, Percentage |-> 5000]}

\* C8, amended: the tally Y=50 of R1 is under 100 and is left out, so the
\* two regions give current X=300 and Y=300, projected X=400 and Y=300, and
\* 57.14 and 42.86 percent, X first.
C8_ScenarioWithFilter ==
    (/\ pc = "done"
     /\ Len(WithoutUmbrella(department_data)) = 2
     /\ WithoutUmbrella(department_data)[1].val = SnapR1
     /\ WithoutUmbrella(department_data)[2].val = SnapR2)
        => projection_df
               = <<[Candidate |-> NameX, CurrentVotes |-> 300,
                    ProjectedVotes |-> 400, Percentage |-> 5714],
                   [Candidate |-> NameY, CurrentVotes |-> 300,
                    ProjectedVotes |-> 300, Percentage |-> 4286]>>

\* R1 and R2 were aggregated
C8_Witness ==
    /\ pc = "done"
    /\ department_data = <<[key |-> "ATLANTIDA", val |-> SnapR1],
                           [key |-> "COLON", val |-> SnapR2]>>
    /\ Len(projection_df) = 2

\* the rows of the projection sum the tallies of at least 100 votes, and
\* every such tally of a name outside the denylist has a row
CountsFrom100 ==
    pc = "done"
        => /\ \A p \in 1..Len(projection_df) :
                  /\ projection_df[p].CurrentVotes
                         = TallySum(department_data, projection_df[p].Candidate, 100)
                  /\ projection_df[p].ProjectedVotes
                         = RatTrunc(TallyProjected(department_data,
                                                   projection_df[p].Candidate, 100))
           /\ \A ij \in TalliesOf(department_data) :
                  TallyAt(department_data, ij).votes >= 100
                      /\ ~Denied(TallyAt(department_data, ij).name)
                      => RowOf(TallyAt(department_data, ij).name) /= {}

\* the acceptance counts every extracted entry, whatever its votes, and the
\* accepted attempt stores the list as extracted
StoredAsExtracted ==
    (/\ pc = "extract"
     /\ Len(CandidatesOf[browser_page]) >= 2
     /\ (dept_name = Exterior \/ VoteSum(CandidatesOf[browser_page]) > 0))
        => /\ HasKey(dept_results', dept_name)
           /\ Get(dept_results', dept_name).candidates = CandidatesOf[browser_page]

\* C9, as stated: tallies under 100 never add to a national sum and one of 100
\* does; the extraction and the acceptance apply no such threshold, so every
\* tally a page shows, also one under 100, is in the extracted list, counts
\* in the acceptance and is stored.
C9_AsClaimed ==
    /\ [](CountsFrom100)
    /\ [][StoredAsExtracted]_vars
    /\ [](pc = "extract" /\ browser_page \in TextPages
             => \A i \in 1..Len(MatchesOf[browser_page]) :
                    MatchesOf[browser_page][i].votes < 100
                        => \E j \in 1..Len(CandidatesOf[browser_page]) :
                               CandidatesOf[browser_page][j]
                                   = MatchesOf[browser_page][i])

\* C9, amended: tallies under 100 never add to a national sum and one of 100
\* does; the acceptance counts and stores every entry the extraction returns,
\* whatever its votes; but the extraction has a threshold of its own on the
\* page text: the free-text strategy returns only its matches above 100.
C9_ThresholdWhereApplied ==
    /\ [](CountsFrom100)
    /\ [][StoredAsExtracted]_vars
    /\ [](pc = "extract" /\ browser_page \in TextPages
             => CandidatesOf[browser_page]
                    = SelectSeq(MatchesOf[browser_page], LAMBDA m : m.votes > 100))

\* every department was accepted at its first attempt: COLON is stored with
\* its tallies of 100 and 99, COPAN from the page text without the tally of
\* 50, and the rows count the 100 and neither the 99 nor the exterior's 12 and 7
C9_Witness ==
    /\ pc = "done"
    /\ HasKey(department_data, "COLON")
    /\ Get(department_data, "COLON").candidates = CandidatesOf["low"]
    /\ CandidatesOf["low"][2].votes = 99
    /\ HasKey(department_data, "COPAN")
    /\ Get(department_data, "COPAN").candidates = CandidatesOf["text"]
    /\ Len(MatchesOf["text"]) > Len(CandidatesOf["text"])
    /\ HasKey(department_data, Exterior)
    /\ \E p \in RowOf(TxtAna) : projection_df[p].CurrentVotes = 28100
    /\ \E p \in RowOf(TxtLeo) : projection_df[p].CurrentVotes = 12750

\* C10: no row of the projection has a name that holds a denylist keyword,
\* whatever its case; the projection is that of the map without such
\* entries; and every tally of at least 100 votes whose name holds no keyword
\* is summed in the row of its name.
C10_DenylistExcluded ==
    pc = "done"
        => /\ \A p \in 1..Len(projection_df) : ~Denied(projection_df[p].Candidate)
           /\ projection_df
                  \in calculate_national_projection(
                        [i \in 1..Len(department_data) |->
                            [key |-> department_data[i].key,
                             val |-> [department_data[i].val EXCEPT
                                         !.candidates =
                                             SelectSeq(@, LAMBDA c : ~Denied(c.name))]]])
           /\ \A ij \in TalliesOf(department_data) :
                  TallyAt(department_data, ij).votes >= 100
                      /\ ~Denied(TallyAt(department_data, ij).name)
                      => \E p \in RowOf(TallyAt(department_data, ij).name) :
                             projection_df[p].CurrentVotes
                                 = TallySum(department_data,
                                            TallyAt(department_data, ij).name, 100)

\* a region with a TOTAL row of 5000 votes was aggregated: Y has a row and
\* TOTAL has none
C10_Witness ==
    /\ pc = "done"
    /\ \E i \in 1..Len(department_data) :
           department_data[i].key = "ATLANTIDA" /\ department_data[i].val = SnapTotals
    /\ RowOf(NameY) /= {}
    /\ RowOf(NameTotal) = {}

(***************************************************************************)
(* Properties of the returned table (SpecProj).                            *)
(***************************************************************************)
\* the total of the Projected Votes column of the returned table
TotalProjected == SumSeq([p \in 1..Len(projection_df) |-> projection_df[p].ProjectedVotes])

\* the total of the Percentage column, in hundredths of a percent
TotalPercentage == SumSeq([p \in 1..Len(projection_df) |-> projection_df[p].Percentage])

\* C11: every row's percentage is its projected votes over the total of the
\* projected votes, times 100, rounded to two decimals (the hundredth nearest
\* to the quotient); when the total is 0 every percentage is 0.
C11_PercentageOfTotal ==
    pc = "done"
        => \A p \in 1..Len(projection_df) :
               IF TotalProjected > 0
               THEN 2 * Abs(projection_df[p].Percentage * TotalProjected
                            - 10000 * projection_df[p].ProjectedVotes)
                        <= TotalProjected
               ELSE projection_df[p].Percentage = 0

\* a table of four rows with a total of 1200 projected votes: 200 of them are
\* 16.67 percent and 400 are 33.33 percent
C11_Witness ==
    /\ pc = "done"
    /\ Len(projection_df) = 4
    /\ TotalProjected = 1200
    /\ \E p \in RowOf(NameZ) :
           projection_df[p].ProjectedVotes = 200 /\ projection_df[p].Percentage = 1667
    /\ \E p \in RowOf(NameW) :
           projection_df[p].ProjectedVotes = 400 /\ projection_df[p].Percentage = 3333

\* C12: when the total of the projected votes is positive, the percentages
\* add up to 100 within 0.005 times the number of rows.
C12_PercentagesSumTo100 ==
    pc = "done" /\ TotalProjected > 0
        => 2 * Abs(TotalPercentage - 10000) <= Len(projection_df)

\* four rows of 400, 500, 600 and 200 projected votes, at 23.53, 29.41, 35.29
\* and 11.76 percent: the column adds up to 99.99
C12_Witness ==
    /\ pc = "done"
    /\ Len(projection_df) = 4
    /\ TotalProjected = 1700
    /\ TotalPercentage = 9999

\* tally a is read before tally b by the loops of the aggregation
Earlier(a, b) == a[1] < b[1] \/ (a[1] = b[1] /\ a[2] < b[2])

\* the counted tallies of a name: at least 100 votes, no denylist keyword
CountedOf(data, name) ==
    {ij \in TalliesOf(data) :
        /\ TallyAt(data, ij).name = name
        /\ TallyAt(data, ij).votes >= 100
        /\ ~Denied(name)}

\* name n1 is first seen before name n2
SeenBefore(data, n1, n2) ==
    \E a \in CountedOf(data, n1) : \A b \in CountedOf(data, n2) : Earlier(a, b)

\* C13: the rows are in non-increasing order of projected votes, rows of
\* equal projected votes are in the order their candidates were first seen,
\* and the ranks are exactly 1..n.
C13_AsClaimed ==
    pc = "done"
        => /\ DOMAIN projection_df = 1..Len(projection_df)
           /\ \A p, q \in 1..Len(projection_df) :
                  p < q
                      => /\ projection_df[p].ProjectedVotes >= projection_df[q].ProjectedVotes
                         /\ (projection_df[p].ProjectedVotes = projection_df[q].ProjectedVotes
                                 => SeenBefore(department_data,
                                               projection_df[p].Candidate,
                                               projection_df[q].Candidate))

(***************************************************************************)
(* Properties of calculate_projection (SpecCalc).                          *)
(***************************************************************************)
\* the call of calculate_projection has returned
Returned == cp_call.result /= <<>>

\* C14: at 100 percent the projection of v votes is v.
C14_FullCountIsIdentity ==
    Returned /\ cp_call.actas_percentage = IntRat(100)
        => cp_call.result[1] = IntRat(cp_call.current_votes)

\* 1000 votes at 100 percent were projected
C14_Witness ==
    /\ Returned
    /\ cp_call.actas_percentage = IntRat(100)
    /\ cp_call.current_votes = 1000
    /\ cp_call.result = <<IntRat(1000)>>

\* C15: at a percentage of 0 or less the projection of v votes is v, and in
\* the aggregation a region at such a percentage contributes the unscaled
\* votes of its candidate.
C15_NoActasIsIdentity ==
    /\ Returned /\ cp_call.actas_percentage.num <= 0
           => cp_call.result[1] = IntRat(cp_call.current_votes)
    /\ \A v \in CalcVotes :
           (/\ pc = "done"
            /\ department_data[1].val.actas_percentage.num <= 0
            /\ department_data[1].val.candidates[1].votes = v
            /\ v >= 100)
               => /\ Len(projection_df) = 1
                  /\ projection_df[1].Candidate = NameX
                  /\ projection_df[1].ProjectedVotes = v

\* 300 votes of X at 0 percent were projected by the function and by the
\* aggregation
C15_Witness ==
    /\ Returned
    /\ cp_call.actas_percentage = IntRat(0)
    /\ cp_call.current_votes = 300
    /\ cp_call.result = <<IntRat(300)>>
    /\ pc = "done"
    /\ Len(projection_df) = 1
    /\ projection_df[1].ProjectedVotes = 300

\* C16: the projection of 0 votes is 0 at every percentage.
C16_ZeroVotesProjectZero ==
    Returned /\ cp_call.current_votes = 0 => cp_call.result[1] = IntRat(0)

\* 0 votes were projected at 57.5 percent
C16_Witness ==
    /\ Returned
    /\ cp_call.current_votes = 0
    /\ cp_call.actas_percentage = Rat(115, 2)
    /\ cp_call.result = <<IntRat(0)>>

(***************************************************************************)
(* Properties of main and of the files it writes (SpecMain).               *)
(***************************************************************************)
\* the cycle that began last produced no usable projection
NoProjection ==
    \/ fetch_outcome = "raised"
    \/ ~IsUsable(department_data)
    \/ projection_df = <<>>

\* a cycle has run to its end: main is back in the wait, or the initial
\* cycle ended the program with the exception of its acquisition
CycleEnded == pc = "m_wait" \/ (pc = "m_crashed" /\ fetch_outcome = "raised")

\* C17: a cycle, initial or of the main loop, that produces no usable
\* projection leaves the cache file, the marker, the historical log and the
\* last snapshot as they were, and re-displays the previous snapshot, if
\* there is one, as OFFLINE with its cached_at.
C17_AsClaimed ==
    CycleEnded /\ NoProjection
        => /\ cache_file = cycle_start.cache
           /\ data_updated = cycle_start.marker
           /\ historical_file = cycle_start.history
           /\ (pc = "m_wait" => last_results = cycle_start.snapshot)
           /\ (cycle_start.snapshot /= <<>>
                  => display = <<[status |-> "OFFLINE",
                                  rows |-> cycle_start.snapshot[1].projection,
                                  cached_time |-> <<cycle_start.snapshot[1].cached_at>>]>>)

\* save_cache has returned in the cycle that began last
CacheSaved == pc = "m_save_history" \/ (pc = "m_wait" /\ ~NoProjection)

\* C18: after every save_cache the cache file holds exactly the region map
\* and the projection of the cycle, stamped with the time of the write, and
\* the marker was written by the same call; a cycle that does not call it
\* leaves the file as it was.
C18_CacheReplaced ==
    /\ CacheSaved
           => /\ cache_file = <<[departments |-> department_data,
                                  projection |-> projection_df,
                                  cached_at |-> now]>>
              /\ data_updated = <<now>>
    /\ pc = "m_wait" /\ NoProjection => cache_file = cycle_start.cache

\* the second cycle of the loop saved the exterior alone over a snapshot
\* that held ATLANTIDA
C18_Witness ==
    /\ pc = "m_wait"
    /\ now = 3
    /\ cache_file /= <<>>
    /\ cache_file[1].cached_at = 3
    /\ cache_file[1].departments = MapExterior
    /\ data_updated = <<3>>
    /\ cycle_start.cache /= <<>>
    /\ HasKey(cycle_start.cache[1].departments, "ATLANTIDA")

\* the data rows of the historical file
DataRows(file) == SelectSeq(file, LAMBDA l : l.kind = "row")

\* C19: a cycle that runs to its end and writes the cache has appended
\* exactly one row to the historical file and kept every line written
\* before; a cycle that does not write the cache leaves the file as it was.
C19_AppendOnly ==
    pc = "m_wait"
        => IF cache_file /= cycle_start.cache
           THEN /\ Len(DataRows(historical_file))
                       = Len(DataRows(cycle_start.history)) + 1
                /\ Len(historical_file) > Len(cycle_start.history)
                /\ SubSeq(historical_file, 1, Len(cycle_start.history))
                       = cycle_start.history
           ELSE historical_file = cycle_start.history

\* rows of the times 0, 1 and 3: the cycle of time 2 wrote nothing
C19_Witness ==
    /\ pc = "m_wait"
    /\ Len(DataRows(historical_file)) = 3
    /\ DataRows(historical_file)[1].fields[1] = 0
    /\ DataRows(historical_file)[2].fields[1] = 1
    /\ DataRows(historical_file)[3].fields[1] = 3
    /\ now = 3

\* C20: the file has one header, its first line, and every data row has 14
\* fields, whatever the number of candidates of the projection.
C20_HeaderOnceRows14 ==
    historical_file /= <<>>
        => /\ historical_file[1].kind = "header"
           /\ Len(historical_file[1].fields) = 14
           /\ \A i \in 2..Len(historical_file) :
                  /\ historical_file[i].kind = "row"
                  /\ Len(historical_file[i].fields) = 14

\* a file created by a call with an empty projection, then appended with a
\* projection of one candidate and one of five
C20_Witness ==
    /\ Len(historical_file) = 4
    /\ historical_file[1].kind = "header"
    /\ historical_file[2].fields[3] = <<>>
    /\ historical_file[3].fields[3] /= <<>> /\ historical_file[3].fields[7] = <<>>
    /\ historical_file[4].fields[11] /= <<>>
    /\ Len(projection_df) = 5

\* the four fields of candidate slot k of a data row
Slot(row, k) == SubSeq(row.fields, 4 * k - 1, 4 * k + 2)

\* the row that the step appended
AppendedRow == historical_file'[Len(historical_file')]

\* C21, as stated: the row appended has 3 slots, slot k holds the row of
\* rank k of the projection, and every field of a slot beyond the
\* projection's rows is blank.
C21_AsClaimed ==
    [][(historical_file' /= historical_file
           => /\ Len(AppendedRow.fields) = 14
              /\ \A k \in 1..3 :
                     Slot(AppendedRow, k)
                         = IF k <= Len(projection_df')
                           THEN <<projection_df'[k].Candidate,
                                  <<projection_df'[k].CurrentVotes>>,
                                  <<projection_df'[k].ProjectedVotes>>,
                                  <<projection_df'[k].Percentage>> >>
                           ELSE << <<>>, <<>>, <<>>, <<>> >>)]_vars

\* C21: the row appended has 3 slots, slot k holds the row of rank k of the
\* projection, and a slot beyond the projection's rows holds an empty name,
\* 0 current votes, 0 projected votes and the percentage 0.00.
C21_SlotsZeroPadded ==
    [][(historical_file' /= historical_file
           => /\ Len(AppendedRow.fields) = 14
              /\ \A k \in 1..3 :
                     Slot(AppendedRow, k)
                         = IF k <= Len(projection_df')
                           THEN <<projection_df'[k].Candidate,
                                  <<projection_df'[k].CurrentVotes>>,
                                  <<projection_df'[k].ProjectedVotes>>,
                                  <<projection_df'[k].Percentage>> >>
                           ELSE << <<>>, <<0>>, <<0>>, <<0>> >>)]_vars

\* the last row written comes from a projection of one candidate: slot 1
\* holds it and slots 2 and 3 are padded; the row before it comes from a
\* projection of five
C21_Witness ==
    /\ Len(historical_file) >= 3
    /\ Len(projection_df) = 1
    /\ Slot(historical_file[Len(historical_file)], 1)
           = <<NameX, <<100>>, <<200>>, <<10000>> >>
    /\ Slot(historical_file[Len(historical_file)], 2) = << <<>>, <<0>>, <<0>>, <<0>> >>
    /\ Slot(historical_file[Len(historical_file)], 3) = << <<>>, <<0>>, <<0>>, <<0>> >>
    /\ Slot(historical_file[Len(historical_file) - 1], 3)[1] /= <<>>

\* the step is a poll of the wait loop: it counts one more poll or leaves
\* the wait for the acquisition
PollStep == pc = "m_wait" /\ (polls' /= polls \/ pc' = "m_fetch")

\* C22: a poll that finds the marker removes it and starts the acquisition
\* at once, and a cycle that starts before the last poll of the wait has
\* consumed a marker.
C22_MarkerStartsCycle ==
    [][(/\ PollStep /\ trigger_file => ~trigger_file' /\ pc' = "m_fetch"
        /\ PollStep /\ pc' = "m_fetch" /\ polls + 1 < PollsPerWait
               => trigger_file /\ ~trigger_file')]_vars

\* the second cycle of the loop began on a marker, which is gone
C22_Witness ==
    /\ pc = "m_fetch"
    /\ now = 3
    /\ cycle_start.by_marker
    /\ ~trigger_file
    /\ polls = 0

\* the three writes of the cycle's bookkeeping have all been made
Bookkept ==
    /\ cache_file = <<[departments |-> department_data,
                       projection |-> projection_df, cached_at |-> now]>>
    /\ data_updated = <<now>>
    /\ Len(DataRows(historical_file)) = Len(DataRows(cycle_start.history)) + 1

\* none of the three writes has been made
NoneWritten ==
    /\ cache_file = cycle_start.cache
    /\ data_updated = cycle_start.marker
    /\ historical_file = cycle_start.history

\* C23: a process stopped by a user interrupt has made all three writes of
\* the cycle it was in (cache snapshot, change marker, history row) or none
\* of them; the cache snapshot is never written without the marker and the
\* history row.
C23_AsClaimed == pc = "m_stopped" => Bookkept \/ NoneWritten

\* the process has ended: main() returned or an exception left it
ProcessEnded == pc \in {"m_stopped", "m_crashed"}

\* C24: the process ends on a user interrupt only: no failure of the
\* acquisition, the projection, the reading of the cache or the writing of
\* the store, in the initial cycle or a later one, ends it.
C24_AsClaimed == ProcessEnded => pc = "m_stopped"

(***************************************************************************)
(* Properties of the extraction (SpecExtract).                             *)
(***************************************************************************)
\* what each strategy gives on the page of the extraction
TablesGive == TableScan(browser_page)

CardsGive == CardScan(browser_page)

TextGives == TextScan(browser_page)

Extracted == pc = "x_done"

\* an exception reached the handler of line 1027
ExtractionFailed ==
    \/ TablesGive.exc
    \/ TablesGive.cands = <<>> /\ CardsGive = <<>> /\ TextGives.exc

\* C25 as stated: without a failure, the list returned is that of the first
\* strategy, in the order tables, cards, text, that gives at least 2
\* candidates.
C25_AsClaimed ==
    Extracted /\ ~TablesGive.exc /\ ~TextGives.exc =>
        IF Len(TablesGive.cands) >= 2 THEN results.candidates = TablesGive.cands
        ELSE IF Len(CardsGive) >= 2 THEN results.candidates = CardsGive
        ELSE IF Len(TextGives.cands) >= 2 THEN results.candidates = TextGives.cands
        ELSE results.candidates = <<>>

\* C25: the list returned is that of the first strategy, in the order
\* tables, cards, text, that gives at least 1 candidate; a strategy runs only
\* when those before it gave none and raised nothing to the outer handler.
C25_FirstNonEmptyUsed ==
    Extracted =>
        /\ TablesGive.cands /= <<>> => results.candidates = TablesGive.cands
        /\ TablesGive.cands = <<>> /\ ~TablesGive.exc /\ CardsGive /= <<>>
               => results.candidates = CardsGive
        /\ TablesGive.cands = <<>> /\ ~TablesGive.exc /\ CardsGive = <<>>
               => results.candidates = TextGives.cands

\* a table with one candidate is used although the cards hold two
C25_Witness ==
    /\ Extracted
    /\ ~TablesGive.exc
    /\ Len(TablesGive.cands) = 1
    /\ Len(CardsGive) = 2
    /\ results.candidates = TablesGive.cands

C27_AsClaimed ==
    Extracted =>
        /\ ExtractionFailed => results.candidates = <<>>
        /\ "body" \in browser_page.raises => results.actas_percentage = IntRat(0)

\* C28: every snapshot accepted into the result map has a percentage of
\* actas within [0, 100] and no negative votes.
C28_AsClaimed ==
    \A i \in 1..Len(dept_results) :
        LET snap == dept_results[i].val
        IN  /\ snap.actas_percentage.num >= 0
            /\ snap.actas_percentage.num <= 100 * snap.actas_percentage.den
            /\ \A j \in 1..Len(snap.candidates) : snap.candidates[j].votes >= 0

(***************************************************************************)
(* Properties of the attempt (SpecScrape) and of the cached map (SpecMain).*)
(***************************************************************************)
\* the step stays within one attempt of one department
SameAttempt == dept_idx' = dept_idx /\ attempt' = attempt

\* C29: within an attempt the steps come in the order select, submit, wait,
\* extract and validate: the submit follows the selection, the wait the
\* submit and the extraction the wait of the same attempt, and the map
\* changes only by the validation after the extraction; a department ends as
\* accepted or as exhausted, never both, keeps that state, and is attempted
\* no more once it has ended.
C29_AttemptOrder ==
    /\ [][(/\ pc' = "submit" /\ pc /= "submit" => pc = "select" /\ SameAttempt
           /\ pc' = "wait" /\ pc /= "wait" => pc = "submit" /\ SameAttempt
           /\ pc' = "extract" /\ pc /= "extract" => pc = "wait" /\ SameAttempt
           /\ pc \in LoopPcs /\ dept_results' /= dept_results => pc = "extract"
           /\ pc \in LoopPcs =>
                  \A d \in DOMAIN region_state :
                      d \in DOMAIN region_state' /\ region_state'[d] = region_state[d])]_vars
    /\ [](\A d \in DOMAIN region_state :
              /\ region_state[d] \in {"accepted", "exhausted"}
              /\ pc \in LoopPcs => d /= dept_name)
    /\ [](pc \in AfterLoopPcs => DOMAIN region_state \in {{}, Depts})

\* the second attempt of COLON is at its extraction, ATLANTIDA having been
\* accepted
C29_Witness ==
    /\ pc = "extract"
    /\ dept_name = "COLON"
    /\ attempt = 1
    /\ "ATLANTIDA" \in DOMAIN region_state
    /\ region_state["ATLANTIDA"] = "accepted"
    /\ last_attempt.dept = "COLON"
    /\ last_attempt.outcome \in FailedOutcomes

\* the map of the cache file that SaveCache has just written
CachedDepartments == cache_file[1].departments

\* C30 as stated: every key of the map written to the cache file is one of
\* the 19 departments.
C30_AsClaimed ==
    pc = "m_save_marker" =>
        \A i \in 1..Len(CachedDepartments) : CachedDepartments[i].key \in Depts

\* C30: the map written to the cache file is the map the acquisition
\* returned, whole: its keys are departments or 'Nacional', and 'Nacional'
\* is among them whenever the acquisition returned it.
C30_CachedWhole ==
    pc = "m_save_marker" =>
        /\ Keys(CachedDepartments) = Keys(department_data)
        /\ \A i \in 1..Len(CachedDepartments) :
               CachedDepartments[i].key \in Depts \cup {"Nacional"}
        /\ HasKey(department_data, "Nacional") => HasKey(CachedDepartments, "Nacional")

\* a cycle of the loop has written 'Nacional' and two departments
C30_Witness ==
    /\ pc = "m_save_marker"
    /\ now = 2
    /\ Keys(CachedDepartments) = <<"Nacional", "ATLANTIDA", "COLON">>

(***************************************************************************)
(* Properties of the iteration over the departments (SpecScrape).          *)
(***************************************************************************)
\* the departments of the list before position k
Before(k) == {HONDURAS_DEPARTMENTS[i] : i \in 1..(k - 1)}

\* C31: the departments are taken one at a time in the order of the list:
\* while the loop runs, exactly the departments before the current one have
\* ended and the current one has not; the loop passes from a department
\* only to the one that follows it in the list, at the end of the attempt
\* that ends it; and the loop that returns has ended every department of
\* the list, each once.
C31_OneRegionAtATime ==
    /\ [](pc \in LoopPcs => DOMAIN region_state = Before(dept_idx))
    /\ [][(pc \in LoopPcs /\ dept_idx' /= dept_idx
             => /\ dept_idx' = dept_idx + 1
                /\ attempt' = 0
                /\ pc' = "select"
                /\ dept_name \in DOMAIN region_state'
                /\ last_attempt'.dept = dept_name)]_vars
    /\ [][(pc \in LoopPcs /\ pc' \notin LoopPcs
             => /\ dept_idx = Len(HONDURAS_DEPARTMENTS)
                /\ DOMAIN region_state' = Depts)]_vars
    /\ [][(\A d \in DOMAIN region_state :
               pc /= "dropdown" =>
                   d \in DOMAIN region_state' /\ region_state'[d] = region_state[d])]_vars

\* the loop is at the fourth department after one accepted, one exhausted
\* and one accepted department
C31_Witness ==
    /\ pc = "wait"
    /\ dept_name = "COPAN"
    /\ DOMAIN region_state = {"ATLANTIDA", "COLON", "COMAYAGUA"}
    /\ region_state["COLON"] = "exhausted"
    /\ region_state["COMAYAGUA"] = "accepted"

(***************************************************************************)
(* Properties of the three strategies (SpecExtract).                       *)
(***************************************************************************)
\* the rows of the tables of the page
RowsOf(page) == UNION {Range(page.tables[i]) : i \in 1..Len(page.tables)}

\* C32: every candidate of the table scan comes from a row of at least two
\* cells whose first cell, stripped, is its name, not empty, and one of
\* whose other cells gives its votes, a positive number.
C32_AsClaimed ==
    Extracted /\ ~TablesGive.exc =>
        \A i \in 1..Len(TablesGive.cands) :
            LET c == TablesGive.cands[i]
            IN  /\ c.name /= <<>>
                /\ c.votes > 0
                /\ \E cells \in RowsOf(browser_page) :
                       /\ Len(cells) >= 2
                       /\ Strip(cells[1]) = c.name
                       /\ \E k \in 2..Len(cells) : CellVotes(cells[k]) = c.votes

\* the texts of the cards of the page that can be read
CardTexts(page) ==
    UNION {Range(page.cards[k]) : k \in DOMAIN page.cards} \ {RaiseText}

\* the first of the lines that satisfies Test
FirstLine(lines, Test(_)) == Head(SelectSeq(lines, Test))

\* C33: the candidate of a card has the number of the first numeric line of
\* the card as its votes and the first line of more than 2 characters that
\* is not numeric as its name.
C33_AsClaimed ==
    Extracted =>
        \A text \in CardTexts(browser_page) :
            ScanCard(text) /= <<>> =>
                /\ ScanCard(text)[1].votes
                       = ParseInt(Without(FirstLine(CardLines(text), IsVotesLine),
                                          Separators))
                /\ ScanCard(text)[1].name = FirstLine(CardLines(text), IsNameLine)

\* the last of the lines that satisfies Test
LastLine(lines, Test(_)) ==
    SelectSeq(lines, Test)[Len(SelectSeq(lines, Test))]

\* C33: the candidate of a card has the number of the last numeric line of
\* the card as its votes and the first line of more than 2 characters that
\* is not numeric as its name.
C33_LastNumberFirstName ==
    Extracted =>
        \A text \in CardTexts(browser_page) :
            ScanCard(text) /= <<>> =>
                /\ ScanCard(text)[1].votes
                       = ParseInt(Without(LastLine(CardLines(text), IsVotesLine),
                                          Separators))
                /\ ScanCard(text)[1].name = FirstLine(CardLines(text), IsNameLine)

\* the card 12 / Eva / 1.234 / 56 gave Eva with 56 votes
C33_Witness ==
    /\ Extracted
    /\ CardTwoNumbers \in CardTexts(browser_page)
    /\ results.candidates = <<[name |-> <<"E", "v", "a">>, votes |-> 56]>>

\* the numbers of what the free-text pattern matches in the body of the page
MatchedVotes ==
    LET m == FindAll(browser_page.body, 1)
    IN  [i \in 1..Len(m) |-> Without(m[i].votes_str, Separators)]

\* the list returned is that of the free-text strategy
TextUsed == TablesGive = [cands |-> <<>>, exc |-> FALSE] /\ CardsGive = <<>>

\* C34: every candidate of the free-text strategy has more than 100 votes,
\* in what the strategy gives and in what the extraction returns from it,
\* and the strategy gives one candidate for each match above 100 and none
\* for the others.
C34_TextVotesAbove100 ==
    Extracted =>
        /\ \A i \in 1..Len(TextGives.cands) : TextGives.cands[i].votes > 100
        /\ TextUsed => \A i \in 1..Len(results.candidates) :
                           results.candidates[i].votes > 100
        /\ ~TextGives.exc /\ "body" \notin browser_page.raises =>
               [i \in 1..Len(TextGives.cands) |-> TextGives.cands[i].votes]
                   = SelectSeq([i \in 1..Len(MatchedVotes) |-> ParseInt(MatchedVotes[i])],
                               LAMBDA v : v > 100)

\* of the matches 30, 2,000, 150 and 100 the extraction returned the second
\* and the third
C34_Witness ==
    /\ Extracted
    /\ TextUsed
    /\ ~TextGives.exc
    /\ MatchedVotes = <<<<"3", "0">>, <<"2", "0", "0", "0">>, <<"1", "5", "0">>,
                        <<"1", "0", "0">>>>
    /\ Len(results.candidates) = 2
    /\ results.candidates[2] = [name |-> TxtLeo, votes |-> 150]

\* every tally of the list has a name and at least one vote
Tallied(candidates) ==
    \A i \in 1..Len(candidates) :
        candidates[i].name /= <<>> /\ candidates[i].votes >= 1

C35_EveryRegionHasCode ==
    /\ [](Cardinality(Depts) = 19 /\ Depts \subseteq DOMAIN dept_codes)
    /\ [](\A d \in DOMAIN region_state : region_state[d] /= "no_code")
    /\ [](last_attempt.outcome /= "no_code")
    /\ [][(pc = "select"
             => \/ pc' = "submit" /\ SameAttempt
                \/ last_attempt'.outcome = "select_error"
                      /\ last_attempt'.dept = dept_name)]_vars

\* the cycle returned with every department ended, YORO and the exterior
\* accepted
C35_Witness ==
    /\ pc = "returned"
    /\ DOMAIN region_state = Depts
    /\ region_state["YORO"] = "accepted"
    /\ HasKey(results, "YORO")
    /\ HasKey(results, Exterior)
    /\ Len(results) = 20

\* the attempts the loop can still make, the one in hand included
AttemptsLeft ==
    (max_retries(dept_name) - attempt)
        + SumSeq([i \in 1..(Len(HONDURAS_DEPARTMENTS) - dept_idx) |->
                     max_retries(HONDURAS_DEPARTMENTS[dept_idx + i])])

\* the position of a step within its attempt
StepOf(step) ==
    CASE step = "select" -> 1 [] step = "submit" -> 2
      [] step = "wait" -> 3 [] step = "extract" -> 4

\* C37: the loop can make at most 18 * 10 + 1 = 181 attempts: it starts
\* with 181 attempts left, every step of the loop either moves forward
\* within its attempt or ends the attempt with fewer attempts left, at
\* least one attempt is left while the loop runs, and the loop is followed
\* by the return of the map.
C37_LoopTerminates ==
    /\ [][(pc = "dropdown" /\ pc' = "select" => AttemptsLeft' = 181)]_vars
    /\ [](pc \in LoopPcs => AttemptsLeft >= 1 /\ AttemptsLeft <= 181)
    /\ [][(pc \in LoopPcs /\ pc' \in LoopPcs
             => \/ SameAttempt /\ StepOf(pc') = StepOf(pc) + 1
                \/ /\ AttemptsLeft' < AttemptsLeft
                   /\ pc' = "select"
                   /\ last_attempt' /= last_attempt)]_vars
    /\ [][(pc \in LoopPcs /\ pc' \notin LoopPcs
             => pc' = "update" /\ AttemptsLeft = 1)]_vars
    /\ [][(pc = "update" => pc' = "returned")]_vars

\* the loop has returned after CORTES used its ten attempts and the
\* exterior its one
C37_Witness ==
    /\ pc = "update"
    /\ "CORTES" \in DOMAIN region_state
    /\ region_state["CORTES"] = "exhausted"
    /\ region_state[Exterior] = "exhausted"
    /\ HasKey(dept_results, "YORO")

(***************************************************************************)
(* Properties of the two markers (SpecMain).                               *)
(***************************************************************************)
\* C38: the change marker is written only by the step that follows the
\* writing of the cache file of the same cycle, with the cache file whole
\* and stamped with the time the marker takes; the cache file is never
\* older than the marker; and a cycle that ends without a projection leaves
\* the marker as it was.
C38_MarkerAfterCache ==
    /\ [][(data_updated' /= data_updated
             => /\ pc = "m_save_marker"
                /\ cache_valid
                /\ cache_file' = cache_file
                /\ cache_file = <<[departments |-> department_data,
                                   projection |-> projection_df,
                                   cached_at |-> now]>>
                /\ data_updated' = <<now>>)]_vars
    /\ [](data_updated /= <<>>
             => cache_file /= <<>> /\ cache_file[1].cached_at >= data_updated[1])
    /\ [](pc = "m_wait" /\ NoProjection => data_updated = cycle_start.marker)

\* the second cycle of the loop has written its cache file and its marker
\* over those of the first
C38_Witness ==
    /\ pc = "m_save_history"
    /\ now = 3
    /\ data_updated = <<3>>
    /\ cache_file /= <<>>
    /\ cache_file[1].cached_at = 3
    /\ cycle_start.marker = <<2>>

(***************************************************************************)
(* Properties of the projected totals (SpecProj).                          *)
(***************************************************************************)
\* the percentages of actas of the regions that are aggregated
AggregatedActas ==
    {WithoutUmbrella(department_data)[i].val.actas_percentage :
        i \in 1..Len(WithoutUmbrella(department_data))}

InRange(a) == a.num >= 0 /\ a.num <= 100 * a.den

NoneOrAll(a) == a.num = 0 \/ a.num = 100 * a.den

\* C39: when every aggregated region has a percentage of actas within
\* [0, 100], no row of the projection has fewer projected than current
\* votes, and when every such region is at 0 or at 100 the two are equal in
\* every row.
C39_ProjectionNeverLowers ==
    pc = "done" /\ (\A a \in AggregatedActas : InRange(a)) =>
        /\ \A p \in 1..Len(projection_df) :
               projection_df[p].ProjectedVotes >= projection_df[p].CurrentVotes
        /\ (\A a \in AggregatedActas : NoneOrAll(a)) =>
               \A p \in 1..Len(projection_df) :
                   projection_df[p].ProjectedVotes = projection_df[p].CurrentVotes

\* a region at 30 percent and one at 100: Y has 400 votes counted and 633
\* projected, W as many projected as counted
C39_Witness ==
    /\ pc = "done"
    /\ AggregatedActas = {IntRat(30), IntRat(100)}
    /\ \E p \in 1..Len(projection_df) :
           /\ projection_df[p].Candidate = NameY
           /\ projection_df[p].CurrentVotes = 400
           /\ projection_df[p].ProjectedVotes = 633
    /\ \E p \in 1..Len(projection_df) :
           /\ projection_df[p].Candidate = NameW
           /\ projection_df[p].ProjectedVotes = projection_df[p].CurrentVotes

(***************************************************************************)
(* Properties of the trigger marker over a whole run (SpecMainFair).       *)
(***************************************************************************)
\* a statement of main() that waits or writes: the sleep of a poll returns,
\* the acquisition returns or raises (its page waits have timeouts), a
\* write finishes
ProgramStep ==
    \/ Phase1
    \/ Poll
    \/ Fetch
    \/ SaveCache
    \/ WriteMarker
    \/ SaveHistory

\* lines 1567-1589: the load of the cache and the projection of phase 2 end
Phase2Ends == pc = "m_phase2" /\ pc' \in {"m_save_cache", "m_wait", "m_crashed"}

\* lines 1607-1637: the projection of a cycle ends
ProcessEnds == pc = "m_process" /\ pc' \in {"m_save_cache", "m_wait"}

\* main() with its statements eventually executed; the user and the
\* dashboard (Interrupt, RequestScrape) act or not as they please
SpecMainFair ==
    /\ SpecMain
    /\ WF_vars(ProgramStep)
    /\ WF_pc(Phase2Ends)
    /\ WF_pc(ProcessEnds)

\* the marker exists in a cycle the model still follows
MarkerPending == trigger_file /\ now <= MaxCycles

\* only a poll of the wait removes the marker, and the step that removes it
\* starts the acquisition
OnlyPollRemovesMarker ==
    [][(trigger_file /\ ~trigger_file' => PollStep /\ pc' = "m_fetch")]_vars

\* a marker is removed, unless main() has ended first by an interrupt or by
\* an exception
MarkerServedUnlessEnded == MarkerPending ~> (~trigger_file \/ ProcessEnded)

\* C40: a marker created at any time, before the first wait and during a
\* cycle included, stays until a poll of the wait finds it, and unless the
\* user cancels it is eventually removed by a step that starts a new
\* acquisition cycle.
C40_AsClaimed ==
    /\ OnlyPollRemovesMarker
    /\ MarkerPending ~> (~trigger_file \/ pc = "m_stopped")

====
